---------------------------- MODULE Spec2Model ----------------------------
(***************************************************************************)
(* The LTC4282 hot swap controller driver, drivers/hwmon/ltc4282.c: the    *)
(* attach sequence ltc4282_probe (power-on, soft reset, clock setup,       *)
(* configuration, GPIO setup, lock initialisation, hwmon registration) and *)
(* the callbacks that run against the device afterwards.                   *)
(*                                                                         *)
(* A register is modelled by its bit fields (regmap_update_bits touches    *)
(* one field at a time).  A u32 is kept by its two's-complement            *)
(* representative, so 0xFFFFFFFF is -1.  Return codes are the errno names. *)
(***************************************************************************)
EXTENDS Integers, Sequences, FiniteSets, TLC

VARIABLES
    dt,         \* the firmware node: the values each property may hold
    cfg,        \* the properties as the driver has read them so far
    rejected,   \* the property a range check has rejected ("none" if none)
    pc,         \* position of ltc4282_probe
    ret,        \* the return code of the last call made by ltc4282_probe
    n_tries,    \* ltc4282_power_on: the local n_tries
    polls,      \* ltc4282_power_on: calls of regmap_read_poll_timeout made
    lastPoll,   \* ltc4282_power_on: what the last of these calls reported
    regs,       \* the chip's register fields
    log,        \* the register accesses ltc4282_probe has issued, in order
    busErr,     \* a register access of ltc4282_probe returned a bus error
    st,         \* struct ltc4282_state: rsense, vin_mode, vfs_out, ...
    gpio,       \* ltc4282_gpio_setup: the loop variable gpio
    ngpios,     \* ltc4282_gpio_setup: the local ngpios
    adc_in,     \* ltc4282_gpio_setup: the local adc_in
    pinFunc,    \* the function ltc4282_gpio_setup has given each pin
    gcReg,      \* the gpio_chip is registered (its callbacks may be called)
    lockInit,   \* mutex_init(&st->lock) has run
    lockOwner,  \* the thread that owns st->lock (0: none)
    tpc,        \* per calling thread: position in the callback it runs
    targ,       \* per calling thread: the callback's arguments
    acc,        \* the last register access made by a callback: whether the
                \* caller owned st->lock, "early_" when made before Ready
    gpioCall,   \* the last call of a gpio_chip callback: arguments and result
    hwmonCall,  \* the last call of a hwmon callback: arguments and result
    mapCall     \* the last question put to the register map's predicates

vars == <<dt, cfg, rejected, pc, ret, n_tries, polls, lastPoll, regs, log,
          busErr, st, gpio, ngpios, adc_in, pinFunc, gcReg, lockInit,
          lockOwner, tpc, targ, acc, gpioCall, hwmonCall, mapCall>>

probeLocals == <<n_tries, polls, lastPoll>>
gpioLocals == <<gpio, ngpios, adc_in, pinFunc>>
callVars == <<lockOwner, tpc, targ, acc, gpioCall, hwmonCall, mapCall>>

-----------------------------------------------------------------------------
(* Bounds of the model. *)

\* optional properties present in one firmware node
MaxProps == 2
\* hwmon calls watched in one run
MaxCalls == 2
\* threads that call into the driver concurrently
NThreads == 2

-----------------------------------------------------------------------------
(* Program constants. *)

N_TRIES == 5
LTC4282_CLKIN_MIN == 250000
LTC4282_CLKIN_MAX == 15500000
LTC4282_FET_BAD_MAX_TIMEOUT == 255
LTC4282_GPIO_NR == 4
CENTI == 100

LTC4282_VIN_3_3V == 0
LTC4282_VIN_5V == 1
LTC4282_VIN_12V == 2
LTC4282_VIN_24V == 3

LTC4282_GPIO_1 == 0
LTC4282_GPIO_2 == 1
LTC4282_GPIO_3 == 2
LTC4282_ALERT == 3

LTC4282_CLKOUT_TICK == 1
LTC4282_DIV_15_PERCENT == 3

LTC4282_PIN_GPIO == 0
LTC4282_PIN_POWER_BAD == 1
LTC4282_PIN_POWER_GOOD == 2
LTC4282_PIN_ADC == 2
LTC4282_PIN_FET_STRESS == 3

\* device_property_read_u32 found no such property
Absent == -1
\* the property has not been read yet
Unread == -2
\* the value a register field holds after the chip's reset
HW_DEFAULT == -1

ltc4282_vfs_milli == <<5540, 8320, 16640, 33280>>

\* struct ltc4282_gpio .n_funcs, by pin
n_funcs == [p \in {LTC4282_GPIO_1, LTC4282_GPIO_2, LTC4282_GPIO_3} |->
              IF p = LTC4282_GPIO_3 THEN 2 ELSE 3]

\* struct ltc4282_gpio .active_high, by pin
active_high == [p \in 0 .. LTC4282_ALERT |-> p = LTC4282_GPIO_1]

\* struct ltc4282_gpio .out_mask of .out_reg, by pin
out_field == [p \in 0 .. LTC4282_ALERT |->
                CASE p = LTC4282_GPIO_1 -> "gpio1_out"
                  [] p = LTC4282_GPIO_2 -> "gpio2_out"
                  [] p = LTC4282_GPIO_3 -> "gpio3_out"
                  [] OTHER -> "alert_out"]

Keys == {"rsense", "vin", "ilim", "vin_monitor", "ov", "uv", "on_delay",
         "on_active_low", "oc_retry", "fet", "clkin", "clkout",
         "gpio1", "gpio2", "gpio3", "alert"}

ltc4282_gpio_prop == <<"gpio1", "gpio2", "gpio3">>

Fields == {"status", "reset", "clk_div", "clkout", "vin_mode", "foldback",
           "ilim", "vdd_monitor", "ov_mode", "uv_mode", "on_delay",
           "on_active_low", "oc_retry", "fet_timeout", "gpio1_config",
           "gpio1_out", "gpio2_out", "gpio3_out", "gpio2_fet_stress",
           "gpio_mode", "alert_out", "vgpio_min", "vgpio_max",
           "vsource_min", "vsource_max", "vsense_min", "vsense_max",
           "power_min", "power_max"}

\* FIELD_PREP(mask, val) for a mask of the given width
FIELD_PREP(width, val) == val % (2 ^ width)

\* n_tries-- on a u32: 0 wraps to 0xFFFFFFFF
U32Dec(n) == IF n = 0 THEN -1 ELSE n - 1

-----------------------------------------------------------------------------
(* u64 arithmetic of the conversions (an LP64 build: long and unsigned     *)
(* long are 64 bits wide).  A number is the sequence of its digits in      *)
(* base LIMB, lowest first, without leading zeros; 0 is <<>>.              *)

LIMB == 32768
MILLI == 1000
MICRO == 1000000
DECA == 10
U8_MAX == 255
U16_MAX == 65535
LTC4282_TCONV_US == 65535

Limb(a, i) == IF i <= Len(a) THEN a[i] ELSE 0

RECURSIVE Trim(_)
Trim(a) ==
    IF Len(a) > 0 /\ a[Len(a)] = 0
    THEN Trim(SubSeq(a, 1, Len(a) - 1)) ELSE a

\* the number n, an integer below 2^31
U(n) == Trim(<<n % LIMB, (n \div LIMB) % LIMB, n \div (LIMB * LIMB)>>)

RECURSIVE AddFrom(_, _, _, _)
AddFrom(a, b, i, c) ==
    IF i > Len(a) /\ i > Len(b)
    THEN IF c = 0 THEN <<>> ELSE <<c>>
    ELSE LET s == Limb(a, i) + Limb(b, i) + c
         IN  <<s % LIMB>> \o AddFrom(a, b, i + 1, s \div LIMB)

Add(a, b) == AddFrom(a, b, 1, 0)

RECURSIVE SubFrom(_, _, _, _)
SubFrom(a, b, i, c) ==
    IF i > Len(a) THEN <<>>
    ELSE LET s == a[i] - Limb(b, i) - c
         IN  <<s % LIMB>> \o SubFrom(a, b, i + 1, IF s < 0 THEN 1 ELSE 0)

\* a - b for a >= b
Sub(a, b) == Trim(SubFrom(a, b, 1, 0))

RECURSIVE LessFrom(_, _, _)
LessFrom(a, b, i) ==
    IF i = 0 THEN FALSE
    ELSE IF Limb(a, i) # Limb(b, i) THEN Limb(a, i) < Limb(b, i)
    ELSE LessFrom(a, b, i - 1)

Less(a, b) == LessFrom(a, b, IF Len(a) > Len(b) THEN Len(a) ELSE Len(b))

Leq(a, b) == ~Less(b, a)

RECURSIVE MulLimbFrom(_, _, _, _)
MulLimbFrom(a, s, i, c) ==
    IF i > Len(a)
    THEN IF c = 0 THEN <<>> ELSE <<c>>
    ELSE LET p == a[i] * s + c
         IN  <<p % LIMB>> \o MulLimbFrom(a, s, i + 1, p \div LIMB)

RECURSIVE MulFrom(_, _, _)
MulFrom(a, b, j) ==
    IF j > Len(b) THEN <<>>
    ELSE Add(MulLimbFrom(a, b[j], 1, 0), <<0>> \o MulFrom(a, b, j + 1))

\* the product over the integers
Mul(a, b) == Trim(MulFrom(a, b, 1))

RECURSIVE Prod(_)
Prod(fs) == IF fs = <<>> THEN U(1) ELSE Mul(U(Head(fs)), Prod(Tail(fs)))

RECURSIVE DivSmallFrom(_, _, _, _)
DivSmallFrom(a, s, i, r) ==
    IF i = 0 THEN <<>>
    ELSE LET n == r * LIMB + a[i]
         IN  DivSmallFrom(a, s, i - 1, n % s) \o <<n \div s>>

\* a / s rounded down, for 0 < s < 2^16
DivSmall(a, s) == Trim(DivSmallFrom(a, s, Len(a), 0))

\* a / (fs[1] * ... * fs[n]) rounded down, one factor at a time:
\* (a / b) / c = a / (b * c) for divisions that round down
RECURSIVE DivBy(_, _)
DivBy(a, fs) == IF fs = <<>> THEN a ELSE DivBy(DivSmall(a, Head(fs)), Tail(fs))

\* the greatest q in lo .. hi with q * d <= n
RECURSIVE Digit(_, _, _, _)
Digit(n, d, lo, hi) ==
    IF lo = hi THEN lo
    ELSE LET mid == (lo + hi + 1) \div 2
         IN  IF Leq(Mul(U(mid), d), n)
             THEN Digit(n, d, mid, hi) ELSE Digit(n, d, lo, mid - 1)

RECURSIVE DivFrom(_, _, _, _)
DivFrom(a, d, i, r) ==
    IF i = 0 THEN <<>>
    ELSE LET n == Trim(<<a[i]>> \o r)
             q == Digit(n, d, 0, LIMB - 1)
         IN  DivFrom(a, d, i - 1, Sub(n, Mul(U(q), d))) \o <<q>>

\* a / d rounded down, for d > 0
Div(a, d) == Trim(DivFrom(a, d, Len(a), <<>>))

\* the low 64 bits
Wrap64(a) ==
    Trim([i \in 1 .. (IF Len(a) < 5 THEN Len(a) ELSE 5) |->
            IF i = 5 THEN a[i] % 16 ELSE a[i]])

\* the low 32 bits
Wrap32(a) ==
    Trim([i \in 1 .. (IF Len(a) < 3 THEN Len(a) ELSE 3) |->
            IF i = 3 THEN a[i] % 4 ELSE a[i]])

\* check_mul_overflow(a, b, &d): the product does not fit a u64; d gets
\* Wrap64 of it
Overflows64(a) == Wrap64(a) # a

\* DIV_ROUND_CLOSEST_ULL(x, d) and DIV_ROUND_CLOSEST(x, d) of unsigned
\* operands, the divisor d given by its factors: (x + d / 2) / d
DIV_ROUND_CLOSEST_ULL(x, fs) ==
    DivBy(Wrap64(Add(x, DivSmall(Prod(fs), 2))), fs)

\* the same with the divisor given as a number
DivRoundClosest(x, d) == Div(Wrap64(Add(x, DivSmall(d, 2))), d)

\* a number below 2^30 as an integer
ToInt(a) == Limb(a, 1) + LIMB * Limb(a, 2)

-----------------------------------------------------------------------------
(* The conversions between register codes and physical values.  The sense *)
(* resistance rsense divides in most of them: they are defined for        *)
(* rsense > 0 and the callers below say what a division by 0 does.        *)

\* ltc4282_read_voltage_word with the top bit of the code dropped
ltc4282_read_voltage_word_15bit(code, fs) ==
    DIV_ROUND_CLOSEST_ULL(Mul(U(code % 32768), U(fs)), <<U16_MAX>>)

\* ltc4282_read_voltage_word: le16_to_cpu(in) * (u64)fs / U16_MAX
ltc4282_read_voltage_word(code, fs) ==
    DIV_ROUND_CLOSEST_ULL(Mul(U(code), U(fs)), <<U16_MAX>>)

\* ltc4282_read_voltage_byte: in * fs / U8_MAX, the product a u32
ltc4282_read_voltage_byte(in, fs) ==
    DIV_ROUND_CLOSEST_ULL(Wrap32(Mul(U(in), U(fs))), <<U8_MAX>>)

\* ltc4282_read_current_word, ltc4282_read_current_byte: in * MILLI /
\* st->rsense, in the voltage read with a full scale of 400 * MILLI
ltc4282_read_current(in, rsense) ==
    DIV_ROUND_CLOSEST_ULL(Mul(in, U(MILLI)), <<rsense>>)

\* ltc4282_read_power_word: temp as initialised
PowerScale(vfs) == Mul(U(DECA * 40 * vfs), U(65536))

\* ltc4282_read_power_word: the product check_mul_overflow computes
PowerProduct(power, vfs) ==
    Mul(Mul(U(power), PowerScale(vfs)), U(MICRO))

\* ltc4282_read_power_word: the branch taken on overflow, with temp as
\* check_mul_overflow left it
PowerFallback(power, temp, rsense) ==
    LET t == DIV_ROUND_CLOSEST_ULL(Wrap64(Mul(U(power), temp)), <<U16_MAX>>)
    IN  DIV_ROUND_CLOSEST_ULL(Wrap64(Mul(t, U(MICRO))), <<U16_MAX, rsense>>)

\* ltc4282_read_power_word: the full-precision branch, with temp as
\* check_mul_overflow left it
PowerFull(power, temp, rsense) ==
    DIV_ROUND_CLOSEST_ULL(Wrap64(Mul(Mul(U(power), temp), U(MICRO))),
                          <<rsense, U16_MAX, U16_MAX>>)

\* ltc4282_read_power_word: check_mul_overflow stores the product in temp,
\* the variable that held the scale, before either branch uses it
ltc4282_read_power_word(power, vfs, rsense) ==
    LET prod == PowerProduct(power, vfs)
        temp == Wrap64(prod)
    IN  IF Overflows64(prod)
        THEN PowerFallback(power, temp, rsense)
        ELSE PowerFull(power, temp, rsense)

\* ltc4282_read_power_byte
ltc4282_read_power_byte(power, vfs, rsense) ==
    DIV_ROUND_CLOSEST_ULL(
        Wrap64(Mul(Mul(U(power * 40), U(DECA * vfs * 256)), U(MICRO))),
        <<U8_MAX, U8_MAX, rsense>>)

\* ltc4282_read_energy: DECA * st->vfs_out * 40 * 256
EnergyScale(vfs) == Mul(U(DECA * vfs * 40), U(256))

\* ltc4282_read_energy: the branch taken on overflow
EnergyFallback(energy, vfs, rsense) ==
    LET t == DIV_ROUND_CLOSEST_ULL(EnergyScale(vfs), <<U16_MAX>>)
    IN  DIV_ROUND_CLOSEST_ULL(Wrap64(Mul(t, energy)), <<rsense>>)

\* ltc4282_read_energy: the full-precision branch
EnergyFull(energy, vfs, rsense) ==
    DIV_ROUND_CLOSEST_ULL(Wrap64(Mul(EnergyScale(vfs), energy)),
                          <<U16_MAX, rsense>>)

ltc4282_read_energy(energy, vfs, rsense) ==
    IF Overflows64(Mul(EnergyScale(vfs), energy))
    THEN EnergyFallback(energy, vfs, rsense)
    ELSE EnergyFull(energy, vfs, rsense)

\* ltc4282_read_power_average, after both reads: energy in microjoule,
\* count the time counter; LTC4282_TCONV_US * le32_to_cpu(count) is the
\* product of an int and a u32, a u32
ltc4282_read_power_average(energy, count) ==
    IF count = 0 THEN <<>>
    ELSE IF Overflows64(Mul(energy, U(MICRO)))
    THEN DivRoundClosest(
             Wrap64(Mul(DIV_ROUND_CLOSEST_ULL(energy, <<LTC4282_TCONV_US>>),
                        U(MICRO))),
             U(count))
    ELSE DivRoundClosest(Mul(energy, U(MICRO)),
                         Wrap32(Mul(U(LTC4282_TCONV_US), U(count))))

\* what regmap_write may get from a u32 that was never assigned
Uninitialised == {0, 128, 255}

\* ltc4282_write_voltage_byte: the bytes it may write for val; the
\* quotient of the else branch is not assigned to in
ltc4282_write_voltage_byte(val, fs) ==
    IF Leq(U(fs), val) THEN {U8_MAX} ELSE Uninitialised

\* ltc4282_write_curr: val * st->rsense / (DECA * MICRO), a u32
CurrToMillivolt(val, rsense) ==
    Wrap32(DIV_ROUND_CLOSEST_ULL(Wrap64(Mul(val, U(rsense))),
                                 <<DECA, MILLI, MILLI>>))

\* ltc4282_write_power_byte: the byte written for val
ltc4282_write_power_byte(val, vfs, rsense) ==
    LET temp == Wrap64(Mul(Mul(val, U(U8_MAX * U8_MAX)), U(rsense)))
        power == Wrap32(DIV_ROUND_CLOSEST_ULL(
                     temp, <<MILLI, MILLI, DECA * 256, vfs, 40>>))
    IN  IF Less(U(U8_MAX), power) THEN U8_MAX ELSE ToInt(power)


-----------------------------------------------------------------------------
(* The firmware node and the chip the driver is attached to.  Each        *)
(* property is read once, when the driver asks for it; dt.dom gives the   *)
(* values the node may hold for it, dt.max the number of optional         *)
(* properties one node holds and dt.status what a poll of the status      *)
(* register may report.  dt.callers are the threads that call the         *)
(* callbacks; with dt.observe the arguments and the result of each call   *)
(* are kept in gpioCall and hwmonCall.                                    *)

\* values for every property (Absent: the node does not hold it), the
\* constrained ones with values on both sides of each limit the driver checks
AttachNode ==
    [k \in Keys |->
        {Absent} \cup
        CASE k = "rsense" -> {50, 200000}
          [] k = "vin" -> {3300000, 5000000, 12000000, 24000000, 1000}
          [] k = "ilim" -> {12500, 21875, 34375, 20000}
          [] k \in {"ov", "uv"} -> {0, 3, 4}
          [] k = "fet" -> {0, 255, 256}
          [] k = "clkin" -> {249999, 250000, 8000000, 15500000, 15500001}
          [] k = "clkout" -> {0, 1, 2}
          [] k \in {"gpio1", "gpio3"} -> 0 .. 3
          [] k = "gpio2" -> 0 .. 4
          [] OTHER -> {1}]

\* nodes that only assign pins as plain GPIOs
GpioNode ==
    [k \in Keys |->
        CASE k = "rsense" -> {200000}
          [] k \in {"gpio1", "gpio2", "gpio3"} -> {Absent, LTC4282_PIN_GPIO}
          [] k = "alert" -> {Absent, 1}
          [] OTHER -> {Absent}]

\* nodes that give each pin the plain-GPIO function or another one
PinNode ==
    [k \in Keys |->
        CASE k = "rsense" -> {200000}
          [] k = "gpio1" -> {Absent, LTC4282_PIN_GPIO}
          [] k = "gpio2" -> {LTC4282_PIN_GPIO, LTC4282_PIN_ADC}
          [] k = "gpio3" -> {LTC4282_PIN_GPIO}
          [] k = "alert" -> {Absent, 1}
          [] OTHER -> {Absent}]

\* nodes that give the sense resistance and the input voltage only
ConvNode ==
    [k \in Keys |->
        CASE k = "rsense" -> {50, 200000}
          [] k = "vin" -> {Absent, 3300000, 5000000, 24000000}
          [] OTHER -> {Absent}]

\* nodes that give the sense resistance and a current limit only: the 8
\* thresholds and values around and between them
IlimNode ==
    [k \in Keys |->
        CASE k = "rsense" -> {200000}
          [] k = "ilim" -> {12500 + 3125 * i : i \in 0 .. 7}
                             \cup {0, 7, 12499, 12501, 20000, 34376, 37500}
          [] OTHER -> {Absent}]

Present(c) ==
    Cardinality({k \in Keys \ {"rsense"} : c[k] \notin {Absent, Unread}})

\* device_property_read_u32 / device_property_read_bool of property k
\* may give v, with c the properties read so far
MayRead(c, k, v) ==
    /\ v \in dt.dom[k]
    /\ v = Absent \/ k = "rsense" \/ Present(c) < dt.max

-----------------------------------------------------------------------------
(* Initial state: devm_kzalloc gives a zeroed struct ltc4282_state and    *)
(* the chip holds its reset values.                                       *)

NoGpioCall == [op |-> "none", pin |-> 0, val |-> 0, out |-> -1,
               ret |-> "OK", res |-> 0]

NoHwmonCall == [op |-> "none", attr |-> "none", chan |-> "none", val |-> <<>>,
                code |-> <<>>, count |-> 0, ret |-> "OK", res |-> <<>>,
                n |-> 0]

InitCommon ==
    /\ cfg = [k \in Keys |-> Unread]
    /\ rejected = "none"
    /\ pc = "probe"
    /\ ret = "OK"
    /\ n_tries = 0
    /\ polls = 0
    /\ lastPoll = "none"
    /\ regs = [f \in Fields |-> HW_DEFAULT]
    /\ log = <<>>
    /\ busErr = FALSE
    /\ st = [rsense |-> 0, vin_mode |-> 0, vfs_out |-> 0,
             vdd_monitor |-> FALSE,
             gpio_map |-> [i \in 0 .. LTC4282_GPIO_NR - 1 |-> 0]]
    /\ gpio = 0
    /\ ngpios = 0
    /\ adc_in = FALSE
    /\ pinFunc = [p \in 0 .. LTC4282_ALERT |-> "none"]
    /\ gcReg = FALSE
    /\ lockInit = FALSE
    /\ lockOwner = 0
    /\ tpc = [t \in 1 .. NThreads |-> "idle"]
    /\ targ = [t \in 1 .. NThreads |-> [offset |-> 0, val |-> 0]]
    /\ acc = "none"
    /\ gpioCall = NoGpioCall
    /\ hwmonCall = NoHwmonCall
    /\ mapCall = [fn |-> "none", reg |-> 0, ok |-> TRUE]

Init ==
    /\ dt = [dom |-> AttachNode, max |-> MaxProps,
             status |-> {"unstable", "stable", "buserr"},
             callers |-> {}, observe |-> FALSE]
    /\ InitCommon

InitRun ==
    /\ dt = [dom |-> GpioNode, max |-> LTC4282_GPIO_NR,
             status |-> {"stable"},
             callers |-> 1 .. NThreads, observe |-> FALSE]
    /\ InitCommon

\* one caller of the hwmon device, whose calls are watched
InitConv ==
    /\ dt = [dom |-> ConvNode, max |-> 1,
             status |-> {"stable"},
             callers |-> {1}, observe |-> TRUE]
    /\ InitCommon

\* one caller of the gpio_chip, whose calls are watched
InitGpio ==
    /\ dt = [dom |-> PinNode, max |-> LTC4282_GPIO_NR,
             status |-> {"stable"},
             callers |-> {1}, observe |-> TRUE]
    /\ InitCommon

InitIlim ==
    /\ dt = [dom |-> IlimNode, max |-> 1,
             status |-> {"stable"},
             callers |-> {}, observe |-> FALSE]
    /\ InitCommon

-----------------------------------------------------------------------------
(* Helpers of the attach actions. *)

Done(next) == pc' = next /\ ret' = "OK"

Abort(e) == pc' = "failed" /\ ret' = e

NoAccess == UNCHANGED <<regs, log, busErr>>

\* one regmap write of field f; err: the bus transfer failed
Write1(f, v, err) ==
    /\ regs' = IF err THEN regs ELSE [regs EXCEPT ![f] = v]
    /\ log' = Append(log, f)
    /\ busErr' = (busErr \/ err)

\* a write whose return code the caller checks
WriteChecked(f, v, next) ==
    \E err \in BOOLEAN :
        /\ Write1(f, v, err)
        /\ IF err THEN Abort("EIO") ELSE Done(next)

-----------------------------------------------------------------------------
(* ltc4282_power_on *)

PowerOnEnable ==
    /\ pc = "probe"
    /\ \E ok \in BOOLEAN :
        IF ok
        THEN /\ pc' = "power_on_poll"
             /\ n_tries' = N_TRIES
             /\ UNCHANGED ret
        ELSE /\ Abort("ENODEV")
             /\ UNCHANGED n_tries
    /\ UNCHANGED <<dt, cfg, rejected, polls, lastPoll, regs, log, busErr, st,
                   gpioLocals, gcReg, lockInit, callVars>>

\* PowerOnResult with the exhaustion test off by one
PowerOnResult_OffByOne(n) == IF n <= 1 THEN "ETIMEDOUT" ELSE "OK"

\* the return value of ltc4282_power_on once the loop is left
PowerOnResult(n) == IF n = 0 THEN "ETIMEDOUT" ELSE "OK"

\* one pass of the do/while loop: one regmap_read_poll_timeout call, which
\* returns 0 when a status bit is seen set (not stable), -ETIMEDOUT when
\* none was set for 50 ms (stable) and the bus error otherwise
PowerOnPoll ==
    /\ pc = "power_on_poll"
    /\ \E r \in dt.status :
        /\ lastPoll' = r
        /\ polls' = polls + 1
        /\ log' = Append(log, "status")
        /\ busErr' = (busErr \/ r = "buserr")
        /\ CASE r = "buserr" ->
                  /\ pc' = "power_on_ret"
                  /\ ret' = "EIO"
                  /\ UNCHANGED n_tries
             [] r = "stable" ->
                  /\ pc' = "power_on_ret"
                  /\ ret' = PowerOnResult(n_tries)
                  /\ UNCHANGED n_tries
             [] OTHER ->
                  /\ n_tries' = U32Dec(n_tries)
                  /\ IF n_tries # 0
                     THEN UNCHANGED <<pc, ret>>
                     ELSE /\ pc' = "power_on_ret"
                          /\ ret' = PowerOnResult(n_tries')
    /\ UNCHANGED <<dt, cfg, rejected, regs, st, gpioLocals, gcReg, lockInit,
                   callVars>>

\* ltc4282_probe: ret = ltc4282_power_on(st); if (ret) return ret;
PowerOnReturn ==
    /\ pc = "power_on_ret"
    /\ pc' = IF ret = "OK" THEN "reset" ELSE "failed"
    /\ n_tries' = 0
    /\ polls' = 0
    /\ lastPoll' = "none"
    /\ UNCHANGED <<dt, cfg, rejected, ret, regs, log, busErr, st, gpioLocals,
                   gcReg, lockInit, callVars>>

-----------------------------------------------------------------------------
(* ltc4282_probe: soft reset and the settle delay *)

\* SoftReset without the settle delay after it
SoftReset_NoSettle ==
    /\ pc = "reset"
    /\ \E err \in BOOLEAN :
        /\ log' = Append(log, "reset")
        /\ busErr' = (busErr \/ err)
        /\ regs' = IF err THEN regs ELSE [f \in Fields |-> HW_DEFAULT]
        /\ IF err THEN Abort("EIO") ELSE Done("clks")
    /\ UNCHANGED <<dt, cfg, rejected, probeLocals, st, gpioLocals, gcReg,
                   lockInit, callVars>>

SoftReset ==
    /\ pc = "reset"
    /\ \E err \in BOOLEAN :
        /\ log' = Append(log, "reset")
        /\ busErr' = (busErr \/ err)
        /\ regs' = IF err THEN regs ELSE [f \in Fields |-> HW_DEFAULT]
        /\ IF err THEN Abort("EIO") ELSE Done("settle")
    /\ UNCHANGED <<dt, cfg, rejected, probeLocals, st, gpioLocals, gcReg,
                   lockInit, callVars>>

\* msleep(3200)
Settle ==
    /\ pc = "settle"
    /\ pc' = "clks"
    /\ UNCHANGED <<dt, cfg, rejected, ret, probeLocals, regs, log, busErr, st,
                   gpioLocals, gcReg, lockInit, callVars>>

-----------------------------------------------------------------------------
(* ltc428_clks_setup *)

\* ClkDiv with the rate divided by the minimum rate, not twice it
ClkDiv_ByMin(rate) == rate \div LTC4282_CLKIN_MIN

\* val = rate / (2 * LTC4282_CLKIN_MIN)
ClkDiv(rate) == rate \div (2 * LTC4282_CLKIN_MIN)

ClksSetup ==
    /\ pc = "clks"
    /\ \E rate \in dt.dom["clkin"], mode \in dt.dom["clkout"],
          getok \in BOOLEAN, e1 \in BOOLEAN, e2 \in BOOLEAN :
        LET c1 == [cfg EXCEPT !["clkin"] = rate]
            c2 == [c1 EXCEPT !["clkout"] = mode]
            div == FIELD_PREP(5, ClkDiv(rate))
        IN
        /\ MayRead(cfg, "clkin", rate)
        /\ IF rate = Absent
           THEN \* no clkin: return 0
                /\ cfg' = c1
                /\ Done("rsense")
                /\ NoAccess
                /\ UNCHANGED rejected
           ELSE IF ~getok
           THEN \* IS_ERR(clkin)
                /\ cfg' = c1
                /\ Abort("ENODEV")
                /\ NoAccess
                /\ UNCHANGED rejected
           ELSE IF rate < LTC4282_CLKIN_MIN \/ rate > LTC4282_CLKIN_MAX
           THEN /\ cfg' = c1
                /\ rejected' = "clkin"
                /\ Abort("EINVAL")
                /\ NoAccess
           ELSE IF e1
           THEN /\ cfg' = c1
                /\ Write1("clk_div", div, TRUE)
                /\ Abort("EIO")
                /\ UNCHANGED rejected
           ELSE /\ MayRead(c1, "clkout", mode)
                /\ cfg' = c2
                /\ IF mode = Absent
                   THEN /\ Write1("clk_div", div, FALSE)
                        /\ Done("rsense")
                        /\ UNCHANGED rejected
                   ELSE IF mode > LTC4282_CLKOUT_TICK
                   THEN /\ Write1("clk_div", div, FALSE)
                        /\ rejected' = "clkout"
                        /\ Abort("EINVAL")
                   ELSE /\ regs' = IF e2
                                   THEN [regs EXCEPT !["clk_div"] = div]
                                   ELSE [regs EXCEPT
                                           !["clk_div"] = div,
                                           !["clkout"] = FIELD_PREP(2, mode + 1)]
                        /\ log' = log \o <<"clk_div", "clkout">>
                        /\ busErr' = (busErr \/ e2)
                        /\ IF e2 THEN Abort("EIO") ELSE Done("rsense")
                        /\ UNCHANGED rejected
    /\ UNCHANGED <<dt, probeLocals, st, gpioLocals, gcReg, lockInit, callVars>>

-----------------------------------------------------------------------------
(* ltc4282_setup, one action per property it handles *)

setupFrame == <<dt, probeLocals, gpioLocals, gcReg, lockInit, callVars>>

\* SetupRsense with a missing property read as 0 instead of refused
SetupRsense_AbsentIsZero ==
    /\ pc = "rsense"
    /\ \E v \in dt.dom["rsense"] :
        /\ MayRead(cfg, "rsense", v)
        /\ cfg' = [cfg EXCEPT !["rsense"] = v]
        /\ st' = [st EXCEPT !.rsense = IF v = Absent THEN 0 ELSE v \div CENTI]
        /\ Done("vin")
    /\ NoAccess
    /\ UNCHANGED <<rejected, setupFrame>>

SetupRsense ==
    /\ pc = "rsense"
    /\ \E v \in dt.dom["rsense"] :
        /\ MayRead(cfg, "rsense", v)
        /\ cfg' = [cfg EXCEPT !["rsense"] = v]
        /\ IF v = Absent
           THEN Abort("EINVAL") /\ UNCHANGED st
           ELSE /\ st' = [st EXCEPT !.rsense = v \div CENTI]
                /\ Done("vin")
    /\ NoAccess
    /\ UNCHANGED <<rejected, setupFrame>>

\* VinMode with 24 V taken for the 12 V class
VinMode_24As12(v) ==
    CASE v = 3300000 -> LTC4282_VIN_3_3V
      [] v = 5000000 -> LTC4282_VIN_5V
      [] v = 12000000 -> LTC4282_VIN_12V
      [] v = 24000000 -> LTC4282_VIN_12V
      [] OTHER -> Absent

\* the switch on vin-mode-microvolt: the enumerator, or Absent for default:
VinMode(v) ==
    CASE v = 3300000 -> LTC4282_VIN_3_3V
      [] v = 5000000 -> LTC4282_VIN_5V
      [] v = 12000000 -> LTC4282_VIN_12V
      [] v = 24000000 -> LTC4282_VIN_24V
      [] OTHER -> Absent

SetupVin ==
    /\ pc = "vin"
    /\ \E v \in dt.dom["vin"], e1 \in BOOLEAN, e2 \in BOOLEAN :
        LET m == VinMode(v) IN
        /\ MayRead(cfg, "vin", v)
        /\ cfg' = [cfg EXCEPT !["vin"] = v]
        /\ IF v = Absent
           THEN /\ st' = [st EXCEPT
                            !.vin_mode = LTC4282_VIN_12V,
                            !.vfs_out = ltc4282_vfs_milli[LTC4282_VIN_12V + 1]]
                /\ Done("ilim")
                /\ NoAccess
                /\ UNCHANGED rejected
           ELSE IF m = Absent
           THEN /\ st' = [st EXCEPT !.vin_mode = LTC4282_VIN_12V]
                /\ rejected' = "vin"
                /\ Abort("EINVAL")
                /\ NoAccess
           ELSE IF e1
           THEN /\ st' = [st EXCEPT !.vin_mode = m]
                /\ Write1("vin_mode", FIELD_PREP(2, m), TRUE)
                /\ Abort("EIO")
                /\ UNCHANGED rejected
           ELSE /\ regs' = IF e2
                           THEN [regs EXCEPT !["vin_mode"] = FIELD_PREP(2, m)]
                           ELSE [regs EXCEPT
                                   !["vin_mode"] = FIELD_PREP(2, m),
                                   !["foldback"] = FIELD_PREP(2, m)]
                /\ log' = log \o <<"vin_mode", "foldback">>
                /\ busErr' = (busErr \/ e2)
                /\ UNCHANGED rejected
                /\ IF e2
                   THEN /\ st' = [st EXCEPT !.vin_mode = m]
                        /\ Abort("EIO")
                   ELSE /\ st' = [st EXCEPT
                                    !.vin_mode = m,
                                    !.vfs_out = ltc4282_vfs_milli[m + 1]]
                        /\ Done("ilim")
    /\ UNCHANGED setupFrame

\* IlimCode with the codes of 21875 and 25000 exchanged
IlimCode_Exchanged(v) ==
    CASE v = 12500 -> 0
      [] v = 15625 -> 1
      [] v = 18750 -> 2
      [] v = 21875 -> 4
      [] v = 25000 -> 3
      [] v = 28125 -> 5
      [] v = 31250 -> 6
      [] v = 34375 -> 7
      [] OTHER -> Absent

\* the switch on adi,current-limit-microvolt: the code, or Absent for default:
IlimCode(v) ==
    CASE v = 12500 -> 0
      [] v = 15625 -> 1
      [] v = 18750 -> 2
      [] v = 21875 -> 3
      [] v = 25000 -> 4
      [] v = 28125 -> 5
      [] v = 31250 -> 6
      [] v = 34375 -> 7
      [] OTHER -> Absent

SetupIlim ==
    /\ pc = "ilim"
    /\ \E v \in dt.dom["ilim"] :
        /\ MayRead(cfg, "ilim", v)
        /\ cfg' = [cfg EXCEPT !["ilim"] = v]
        /\ IF v = Absent
           THEN Done("vdd_monitor") /\ NoAccess /\ UNCHANGED rejected
           ELSE IF IlimCode(v) = Absent
           THEN rejected' = "ilim" /\ Abort("EINVAL") /\ NoAccess
           ELSE /\ WriteChecked("ilim", FIELD_PREP(3, IlimCode(v)), "vdd_monitor")
                /\ UNCHANGED rejected
    /\ UNCHANGED <<st, setupFrame>>

SetupVddMonitor ==
    /\ pc = "vdd_monitor"
    /\ \E v \in dt.dom["vin_monitor"] :
        /\ MayRead(cfg, "vin_monitor", v)
        /\ cfg' = [cfg EXCEPT !["vin_monitor"] = v]
        /\ st' = [st EXCEPT !.vdd_monitor = (v # Absent)]
        /\ IF v = Absent
           THEN Done("ov") /\ NoAccess
           ELSE WriteChecked("vdd_monitor", 0, "ov")
    /\ UNCHANGED <<rejected, setupFrame>>

\* adi,overvoltage-dividers and adi,undervoltage-dividers: the return code
\* of regmap_update_bits is overwritten by the next property read
SetupDivider(at, key, field, next) ==
    /\ pc = at
    /\ \E v \in dt.dom[key], err \in BOOLEAN :
        /\ MayRead(cfg, key, v)
        /\ cfg' = [cfg EXCEPT ![key] = v]
        /\ IF v = Absent
           THEN Done(next) /\ NoAccess /\ UNCHANGED rejected
           ELSE IF v > LTC4282_DIV_15_PERCENT
           THEN rejected' = key /\ Abort("EINVAL") /\ NoAccess
           ELSE /\ Write1(field, FIELD_PREP(2, v), err)
                /\ Done(next)
                /\ UNCHANGED rejected
    /\ UNCHANGED <<st, setupFrame>>

SetupOv == SetupDivider("ov", "ov", "ov_mode", "uv")

SetupUv == SetupDivider("uv", "uv", "uv_mode", "on_delay")

\* SetupFlag with the bit written back as 1 - bit when the property is
\* absent
SetupFlag_AbsentWrites(at, key, field, bit, next) ==
    /\ pc = at
    /\ \E v \in dt.dom[key] :
        /\ MayRead(cfg, key, v)
        /\ cfg' = [cfg EXCEPT ![key] = v]
        /\ IF v = Absent
           THEN WriteChecked(field, 1 - bit, next)
           ELSE WriteChecked(field, bit, next)
    /\ UNCHANGED <<rejected, st, setupFrame>>

\* a boolean property that sets or clears one bit of LTC4282_CTRL_LSB
SetupFlag(at, key, field, bit, next) ==
    /\ pc = at
    /\ \E v \in dt.dom[key] :
        /\ MayRead(cfg, key, v)
        /\ cfg' = [cfg EXCEPT ![key] = v]
        /\ IF v = Absent
           THEN Done(next) /\ NoAccess
           ELSE WriteChecked(field, bit, next)
    /\ UNCHANGED <<rejected, st, setupFrame>>

SetupOnDelay == SetupFlag("on_delay", "on_delay", "on_delay", 1, "on_active_low")

SetupOnActiveLow ==
    SetupFlag("on_active_low", "on_active_low", "on_active_low", 0, "oc_retry")

SetupOcRetry == SetupFlag("oc_retry", "oc_retry", "oc_retry", 0, "fet")

\* SetupFet with the register written before the range check
SetupFet_WriteFirst ==
    /\ pc = "fet"
    /\ \E v \in dt.dom["fet"], err \in BOOLEAN :
        /\ MayRead(cfg, "fet", v)
        /\ cfg' = [cfg EXCEPT !["fet"] = v]
        /\ IF v = Absent
           THEN Done("gpio_loop") /\ NoAccess /\ UNCHANGED rejected
           ELSE /\ Write1("fet_timeout", FIELD_PREP(8, v), err)
                /\ IF err
                   THEN Abort("EIO") /\ UNCHANGED rejected
                   ELSE IF v > LTC4282_FET_BAD_MAX_TIMEOUT
                   THEN rejected' = "fet" /\ Abort("EINVAL")
                   ELSE Done("gpio_loop") /\ UNCHANGED rejected
    /\ UNCHANGED <<st, setupFrame>>

SetupFet ==
    /\ pc = "fet"
    /\ \E v \in dt.dom["fet"] :
        /\ MayRead(cfg, "fet", v)
        /\ cfg' = [cfg EXCEPT !["fet"] = v]
        /\ IF v = Absent
           THEN Done("gpio_loop") /\ NoAccess /\ UNCHANGED rejected
           ELSE IF v > LTC4282_FET_BAD_MAX_TIMEOUT
           THEN rejected' = "fet" /\ Abort("EINVAL") /\ NoAccess
           ELSE /\ WriteChecked("fet_timeout", v, "gpio_loop")
                /\ UNCHANGED rejected
    /\ UNCHANGED <<st, setupFrame>>

-----------------------------------------------------------------------------
(* ltc4282_gpio_setup and ltc4282_non_gpio_setup *)

\* ltc4282_non_gpio_setup(st, pin, func, &adc_in): what it does.
\*   reject: -EINVAL with no register access;
\*   otherwise one write of val to field, which gives the pin function fn
ltc4282_non_gpio_setup(pin, func, adc) ==
    IF pin = LTC4282_GPIO_1
    THEN [reject |-> FALSE, field |-> "gpio1_config",
          val |-> IF func = LTC4282_PIN_POWER_GOOD
                  THEN 0 ELSE LTC4282_PIN_POWER_BAD,
          fn |-> IF func = LTC4282_PIN_POWER_GOOD
                 THEN "power_good" ELSE "power_bad",
          adc |-> adc]
    ELSE IF func = LTC4282_PIN_FET_STRESS
    THEN [reject |-> FALSE, field |-> "gpio2_fet_stress", val |-> 1,
          fn |-> "fet_stress", adc |-> adc]
    ELSE IF adc
    THEN [reject |-> TRUE, field |-> "none", val |-> 0, fn |-> "none",
          adc |-> adc]
    ELSE [reject |-> FALSE, field |-> "gpio_mode",
          val |-> IF pin = LTC4282_GPIO_2 THEN 1 ELSE 0,
          fn |-> "adc", adc |-> TRUE]

\* the end of one pass of the for loop
NextPin ==
    IF gpio = LTC4282_GPIO_3
    THEN Done("gpio_add") /\ UNCHANGED gpio
    ELSE gpio' = gpio + 1 /\ UNCHANGED <<pc, ret>>

\* one pass of the for loop of ltc4282_gpio_setup
GpioSetupPin ==
    /\ pc = "gpio_loop"
    /\ \E func \in dt.dom[ltc4282_gpio_prop[gpio + 1]], err \in BOOLEAN :
        LET key == ltc4282_gpio_prop[gpio + 1]
            ng == ltc4282_non_gpio_setup(gpio, func, adc_in)
        IN
        /\ MayRead(cfg, key, func)
        /\ cfg' = [cfg EXCEPT ![key] = func]
        /\ IF func = Absent
           THEN /\ NextPin
                /\ NoAccess
                /\ UNCHANGED <<rejected, st, ngpios, adc_in, pinFunc>>
           ELSE IF func >= n_funcs[gpio]
           THEN \* return dev_err_probe(dev, ret, ...) with ret == 0
                /\ rejected' = key
                /\ Done("mutex_init")
                /\ NoAccess
                /\ UNCHANGED <<st, gpio, ngpios, adc_in, pinFunc>>
           ELSE IF func = LTC4282_PIN_GPIO
           THEN /\ st' = [st EXCEPT !.gpio_map[ngpios] = gpio]
                /\ ngpios' = ngpios + 1
                /\ pinFunc' = [pinFunc EXCEPT ![gpio] = "gpio"]
                /\ UNCHANGED <<rejected, adc_in>>
                /\ IF gpio = LTC4282_GPIO_1
                   THEN /\ Write1("gpio1_config", 3, err)
                        /\ IF err
                           THEN Abort("EIO") /\ UNCHANGED gpio
                           ELSE NextPin
                   ELSE NextPin /\ NoAccess
           ELSE IF ng.reject
           THEN /\ rejected' = key
                /\ Abort("EINVAL")
                /\ NoAccess
                /\ UNCHANGED <<st, gpio, ngpios, adc_in, pinFunc>>
           ELSE /\ adc_in' = ng.adc
                /\ Write1(ng.field, ng.val, err)
                /\ UNCHANGED <<rejected, st, ngpios>>
                /\ IF err
                   THEN Abort("EIO") /\ UNCHANGED <<gpio, pinFunc>>
                   ELSE /\ pinFunc' = [pinFunc EXCEPT ![gpio] = ng.fn]
                        /\ NextPin
    /\ UNCHANGED <<dt, probeLocals, gcReg, lockInit, callVars>>

\* GpioChipAdd with ALERT put in the first entry of the table
GpioChipAdd_AlertFirst ==
    /\ pc = "gpio_add"
    /\ \E v \in dt.dom["alert"], ok \in BOOLEAN :
        LET n == IF v = Absent THEN ngpios ELSE ngpios + 1 IN
        /\ MayRead(cfg, "alert", v)
        /\ cfg' = [cfg EXCEPT !["alert"] = v]
        /\ ngpios' = n
        /\ IF v = Absent
           THEN UNCHANGED <<st, pinFunc>>
           ELSE /\ st' = [st EXCEPT !.gpio_map[0] = LTC4282_ALERT]
                /\ pinFunc' = [pinFunc EXCEPT ![LTC4282_ALERT] = "gpio"]
        /\ IF n = 0
           THEN Done("mutex_init") /\ UNCHANGED gcReg
           ELSE IF ok
           THEN Done("mutex_init") /\ gcReg' = TRUE
           ELSE Abort("ENODEV") /\ UNCHANGED gcReg
    /\ NoAccess
    /\ UNCHANGED <<dt, rejected, probeLocals, gpio, adc_in, lockInit, callVars>>

\* the end of ltc4282_gpio_setup: adi,alert-as-gp and devm_gpiochip_add_data,
\* which may fail
GpioChipAdd ==
    /\ pc = "gpio_add"
    /\ \E v \in dt.dom["alert"], ok \in BOOLEAN :
        LET n == IF v = Absent THEN ngpios ELSE ngpios + 1 IN
        /\ MayRead(cfg, "alert", v)
        /\ cfg' = [cfg EXCEPT !["alert"] = v]
        /\ ngpios' = n
        /\ IF v = Absent
           THEN UNCHANGED <<st, pinFunc>>
           ELSE /\ st' = [st EXCEPT !.gpio_map[ngpios] = LTC4282_ALERT]
                /\ pinFunc' = [pinFunc EXCEPT ![LTC4282_ALERT] = "gpio"]
        /\ IF n = 0
           THEN Done("mutex_init") /\ UNCHANGED gcReg
           ELSE IF ok
           THEN Done("mutex_init") /\ gcReg' = TRUE
           ELSE Abort("ENODEV") /\ UNCHANGED gcReg
    /\ NoAccess
    /\ UNCHANGED <<dt, rejected, probeLocals, gpio, adc_in, lockInit, callVars>>

-----------------------------------------------------------------------------
(* ltc4282_probe: the lock and the hwmon device *)

\* mutex_init(&st->lock): the lock is unlocked afterwards, whoever held it
MutexInit ==
    /\ pc = "mutex_init"
    /\ pc' = "hwmon"
    /\ lockInit' = TRUE
    /\ lockOwner' = 0
    /\ UNCHANGED <<dt, cfg, rejected, ret, probeLocals, regs, log, busErr, st,
                   gpioLocals, gcReg, tpc, targ, acc, gpioCall, hwmonCall,
                   mapCall>>

\* devm_hwmon_device_register_with_info, which may fail; a failed probe
\* releases the gpio_chip
HwmonRegister ==
    /\ pc = "hwmon"
    /\ \E ok \in BOOLEAN :
        IF ok
        THEN Done("ready") /\ UNCHANGED gcReg
        ELSE Abort("ENODEV") /\ gcReg' = FALSE
    /\ UNCHANGED <<dt, cfg, rejected, probeLocals, regs, log, busErr, st,
                   gpioLocals, lockInit, callVars>>

Ready == pc = "ready"

-----------------------------------------------------------------------------
(* The callbacks, called from NThreads threads: the gpio_chip's once it   *)
(* is registered, the hwmon ones once the hwmon device is.  regmap makes  *)
(* each register access atomic, so a callback is one step per access.     *)

Threads == 1 .. NThreads

attachVars == <<dt, cfg, rejected, pc, ret, probeLocals, log, busErr, st,
                gpioLocals, gcReg, lockInit>>

\* the lines of the gpio_chip
Offsets == 0 .. ngpios - 1

\* how a register access by thread t is recorded
Access(t) ==
    (IF Ready THEN "" ELSE "early_")
        \o (IF lockOwner = t THEN "locked" ELSE "unlocked")

\* the level written to a pin's output bit for the requested value
OutLevel_NoInvert(pin, val) == val

OutLevel(pin, val) == IF active_high[pin] THEN val ELSE 1 - val

\* mutex_unlock by thread t at the end of a guard(mutex) scope; when the
\* lock was re-initialised under its holder the unlock releases a lock t
\* does not own, or leaves it alone
Unlocked(t) ==
    IF lockOwner = t THEN {0} ELSE {0, lockOwner}

\* what a specification that watches the calls keeps of call c
Observed(c, old) == IF dt.observe THEN c ELSE old

\* ltc4282_gpio_input_set
GpioInputSet(t) ==
    /\ gcReg /\ tpc[t] = "idle"
    /\ \E o \in Offsets, err \in BOOLEAN :
        LET pin == st.gpio_map[o] IN
        IF pin # LTC4282_GPIO_1
        THEN /\ gpioCall' = Observed([op |-> "direction_input", pin |-> pin,
                                      val |-> 0, out |-> -1, ret |-> "OK",
                                      res |-> 0], gpioCall)
             /\ UNCHANGED <<regs, acc>>
        ELSE /\ regs' = IF err THEN regs ELSE [regs EXCEPT !["gpio1_config"] = 3]
             /\ acc' = Access(t)
             /\ gpioCall' = Observed([op |-> "direction_input", pin |-> pin,
                                      val |-> 0, out |-> -1,
                                      ret |-> IF err THEN "EIO" ELSE "OK",
                                      res |-> 0], gpioCall)
    /\ UNCHANGED <<mapCall, attachVars, lockOwner, tpc, targ, hwmonCall>>

\* ltc4282_gpio_set; the return code of regmap_update_bits is dropped
GpioSet(t) ==
    /\ gcReg /\ tpc[t] = "idle"
    /\ \E o \in Offsets, val \in {0, 1}, err \in BOOLEAN :
        LET pin == st.gpio_map[o] IN
        /\ regs' = IF err THEN regs
                   ELSE [regs EXCEPT ![out_field[pin]] = OutLevel(pin, val)]
        /\ acc' = Access(t)
        /\ gpioCall' = Observed([op |-> "set", pin |-> pin, val |-> val,
                                 out |-> OutLevel(pin, val), ret |-> "OK",
                                 res |-> 0], gpioCall)
    /\ UNCHANGED <<mapCall, attachVars, lockOwner, tpc, targ, hwmonCall>>

\* ltc4282_gpio_get: one read of the pin's input register; bit is the
\* pin's status bit in it
GpioGet(t) ==
    /\ gcReg /\ tpc[t] = "idle"
    /\ acc' = Access(t)
    /\ \E o \in Offsets, bit \in {0, 1}, err \in BOOLEAN :
        gpioCall' = Observed([op |-> "get", pin |-> st.gpio_map[o],
                              val |-> bit, out |-> -1,
                              ret |-> IF err THEN "EIO" ELSE "OK",
                              res |-> IF err THEN 0 ELSE bit], gpioCall)
    /\ UNCHANGED <<mapCall, attachVars, regs, lockOwner, tpc, targ, hwmonCall>>

\* OutLock with every pin taken through the GPIO_1 configuration write
OutLock_AlwaysCfg(t) ==
    /\ gcReg /\ tpc[t] = "idle"
    /\ lockOwner = 0
    /\ \E o \in Offsets, val \in {0, 1} :
        /\ targ' = [targ EXCEPT ![t] = [offset |-> o, val |-> val]]
        /\ tpc' = [tpc EXCEPT ![t] = "out_cfg"]
        /\ gpioCall' = Observed([op |-> "direction_output",
                                 pin |-> st.gpio_map[o], val |-> val,
                                 out |-> -1, ret |-> "running", res |-> 0],
                                gpioCall)
    /\ lockOwner' = t
    /\ UNCHANGED <<mapCall, attachVars, regs, acc, hwmonCall>>

\* ltc4282_gpio_output_set: guard(mutex)(&st->lock)
OutLock(t) ==
    /\ gcReg /\ tpc[t] = "idle"
    /\ lockOwner = 0
    /\ \E o \in Offsets, val \in {0, 1} :
        /\ targ' = [targ EXCEPT ![t] = [offset |-> o, val |-> val]]
        /\ tpc' = [tpc EXCEPT ![t] =
                     IF st.gpio_map[o] = LTC4282_GPIO_1
                     THEN "out_cfg" ELSE "out_val"]
        /\ gpioCall' = Observed([op |-> "direction_output",
                                 pin |-> st.gpio_map[o], val |-> val,
                                 out |-> -1, ret |-> "running", res |-> 0],
                                gpioCall)
    /\ lockOwner' = t
    /\ UNCHANGED <<mapCall, attachVars, regs, acc, hwmonCall>>

\* ltc4282_gpio_output_set: GPIO_1 is made an output
OutCfg(t) ==
    /\ tpc[t] = "out_cfg"
    /\ acc' = Access(t)
    /\ \E err \in BOOLEAN :
        IF err
        THEN /\ tpc' = [tpc EXCEPT ![t] = "idle"]
             /\ targ' = [targ EXCEPT ![t] = [offset |-> 0, val |-> 0]]
             /\ lockOwner' \in Unlocked(t)
             /\ gpioCall' = Observed([gpioCall EXCEPT !.ret = "EIO"], gpioCall)
             /\ UNCHANGED regs
        ELSE /\ regs' = [regs EXCEPT !["gpio1_config"] = FIELD_PREP(2, 2)]
             /\ tpc' = [tpc EXCEPT ![t] = "out_val"]
             /\ UNCHANGED <<targ, lockOwner, gpioCall>>
    /\ UNCHANGED <<mapCall, attachVars, hwmonCall>>

\* ltc4282_gpio_output_set: the output bit is written and the lock released
OutVal(t) ==
    /\ tpc[t] = "out_val"
    /\ acc' = Access(t)
    /\ \E err \in BOOLEAN :
        LET pin == st.gpio_map[targ[t].offset]
            out == OutLevel(pin, targ[t].val)
        IN  /\ regs' = IF err THEN regs
                       ELSE [regs EXCEPT ![out_field[pin]] = out]
            /\ gpioCall' = Observed([gpioCall EXCEPT
                                       !.out = out,
                                       !.ret = IF err THEN "EIO" ELSE "OK"],
                                    gpioCall)
    /\ tpc' = [tpc EXCEPT ![t] = "idle"]
    /\ targ' = [targ EXCEPT ![t] = [offset |-> 0, val |-> 0]]
    /\ lockOwner' \in Unlocked(t)
    /\ UNCHANGED <<mapCall, attachVars, hwmonCall>>

\* codes, register bytes and requested values the calls are made with
WordCodes == {0, 1, 2, 32767, 32768, 65534, 65535}
SenseCodes == {0, 1, 65535}
PowerCodes == {1, 21, 240, 65535}
ByteSamples == {0, 128, 255}
EnergyCodes == {<<>>, U(1), U(MICRO), <<32767, 32767, 32767, 7>>}
Counts == {0, 1, 1000, 65538}
InValues == {U(1000), U(40000)}
CurrValues == {U(10000), U(400000)}
PowerValues == {Mul(U(MILLI), U(MICRO)), Mul(U(10 * MILLI), U(MICRO))}

\* the meter registers of the chip as a watched call finds them
EnergyHeld == IF dt.observe THEN EnergyCodes ELSE {<<>>}
CountHeld == IF dt.observe THEN Counts ELSE {0}

\* the byte a threshold register holds: the one written, or any
Held(reg) == IF regs[reg] = HW_DEFAULT THEN ByteSamples ELSE {regs[reg]}

\* a division by st->rsense: by 0 it traps and the caller is killed, or
\* it gives 0, as the machine has it
DivZero(rsense) == IF rsense = 0 THEN {"trap", "zero"} ELSE {"none"}

\* a watched call may start
CallBudget == dt.observe => hwmonCall.n < MaxCalls

CallStart(t) == Ready /\ tpc[t] = "idle" /\ CallBudget

Rd(attr, chan, code, rc, res) ==
    [op |-> "read", attr |-> attr, chan |-> chan, val |-> <<>>,
     code |-> code, count |-> 0, ret |-> rc, res |-> res,
     n |-> hwmonCall.n + 1]

Wr(attr, chan, val, byte, rc) ==
    [op |-> "write", attr |-> attr, chan |-> chan, val |-> val,
     code |-> U(byte), count |-> 0, ret |-> rc, res |-> <<>>,
     n |-> hwmonCall.n + 1]

\* a read whose register access failed
ReadFail(attr, chan) ==
    /\ hwmonCall' = Observed(Rd(attr, chan, <<>>, "EIO", <<>>), hwmonCall)
    /\ UNCHANGED tpc

\* a read that got code and converted it to res, dividing as z says
ReadDone(t, z, attr, chan, code, res) ==
    /\ hwmonCall' = Observed(Rd(attr, chan, code,
                                IF z = "trap" THEN "OOPS" ELSE "OK",
                                IF z = "none" THEN res ELSE <<>>),
                             hwmonCall)
    /\ tpc' = IF z = "trap" THEN [tpc EXCEPT ![t] = "dead"] ELSE tpc

\* ltc4282_read_power_average: guard(mutex)(&st->lock)
PaLock(t) ==
    /\ CallStart(t)
    /\ lockOwner = 0
    /\ lockOwner' = t
    /\ tpc' = [tpc EXCEPT ![t] = "pa_energy"]
    /\ \E e \in EnergyHeld, c \in CountHeld :
        hwmonCall' = Observed([op |-> "read", attr |-> "power_average",
                               chan |-> "none", val |-> <<>>, code |-> e,
                               count |-> c, ret |-> "running", res |-> <<>>,
                               n |-> hwmonCall.n + 1], hwmonCall)
    /\ UNCHANGED <<mapCall, attachVars, regs, targ, acc, gpioCall>>

\* ltc4282_read_power_average: ltc4282_read_energy, the 6 byte bulk read
\* and the conversion to microjoule, kept in val
PaEnergy(t) ==
    /\ tpc[t] = "pa_energy"
    /\ acc' = Access(t)
    /\ \E err \in BOOLEAN, z \in DivZero(st.rsense) :
        IF err
        THEN /\ tpc' = [tpc EXCEPT ![t] = "idle"]
             /\ lockOwner' \in Unlocked(t)
             /\ hwmonCall' = Observed([hwmonCall EXCEPT !.ret = "EIO"],
                                      hwmonCall)
        ELSE IF z = "trap"
        THEN /\ tpc' = [tpc EXCEPT ![t] = "dead"]
             /\ hwmonCall' = Observed([hwmonCall EXCEPT !.ret = "OOPS"],
                                      hwmonCall)
             /\ UNCHANGED lockOwner
        ELSE /\ tpc' = [tpc EXCEPT ![t] = "pa_count"]
             /\ hwmonCall' =
                   Observed([hwmonCall EXCEPT !.val =
                                IF z = "zero" THEN <<>>
                                ELSE ltc4282_read_energy(hwmonCall.code,
                                                         st.vfs_out,
                                                         st.rsense)],
                            hwmonCall)
             /\ UNCHANGED lockOwner
    /\ UNCHANGED <<mapCall, attachVars, regs, targ, gpioCall>>

\* ltc4282_read_power_average: the bulk read of LTC4282_TIME_COUNTER, the
\* result and the release of the lock
PaCount(t) ==
    /\ tpc[t] = "pa_count"
    /\ acc' = Access(t)
    /\ tpc' = [tpc EXCEPT ![t] = "idle"]
    /\ lockOwner' \in Unlocked(t)
    /\ \E err \in BOOLEAN :
        hwmonCall' =
            Observed(IF err THEN [hwmonCall EXCEPT !.ret = "EIO"]
                     ELSE [hwmonCall EXCEPT
                             !.ret = "OK",
                             !.res = ltc4282_read_power_average(
                                         hwmonCall.val, hwmonCall.count)],
                     hwmonCall)
    /\ UNCHANGED <<mapCall, attachVars, regs, targ, gpioCall>>

\* ltc4282_show_value: ltc4282_read_energy for energy1_input
ShowValue(t) ==
    /\ CallStart(t)
    /\ acc' = Access(t)
    /\ \E err \in BOOLEAN, e \in EnergyHeld, z \in DivZero(st.rsense) :
        IF err THEN ReadFail("energy", "none")
        ELSE ReadDone(t, z, "energy", "none", e,
                      ltc4282_read_energy(e, st.vfs_out, st.rsense))
    /\ UNCHANGED <<mapCall, attachVars, regs, lockOwner, targ, gpioCall>>

\* ltc4282_read of an implemented attribute other than power1_average: one
\* register read
HwmonRead(t) ==
    /\ Ready /\ tpc[t] = "idle"
    /\ acc' = Access(t)
    /\ UNCHANGED <<mapCall, attachVars, regs, lockOwner, tpc, targ, gpioCall,
                   hwmonCall>>

\* ltc4282_write of a max or min threshold: one regmap_write
HwmonWrite(t) ==
    /\ Ready /\ tpc[t] = "idle"
    /\ acc' = Access(t)
    /\ UNCHANGED <<mapCall, attachVars, regs, lockOwner, tpc, targ, gpioCall,
                   hwmonCall>>

\* the threshold register of a channel of ltc4282_read_in: hwmon_in_min
\* reads the _MAX register as hwmon_in_max does
InReadReg(attr, chan) ==
    IF chan = "vsource" THEN "vsource_max" ELSE "vgpio_max"

\* the threshold register of a channel of ltc4282_write_in
InWriteReg(attr, chan) ==
    CASE chan = "vsource" /\ attr = "in_max" -> "vsource_max"
      [] chan = "vsource" /\ attr = "in_min" -> "vsource_min"
      [] chan = "vgpio" /\ attr = "in_max" -> "vgpio_max"
      [] OTHER -> "vgpio_min"

\* the full scale of a channel of ltc4282_read_in and ltc4282_write_in
InFullScale(chan) == IF chan = "vsource" THEN st.vfs_out ELSE 1280

\* ltc4282_read_in with the value read: in_input, in_max, in_min
ReadIn(t) ==
    /\ CallStart(t)
    /\ acc' = Access(t)
    /\ \E chan \in {"vsource", "vgpio"}, err \in BOOLEAN :
        \/ \E code \in WordCodes :
              IF err THEN ReadFail("in_input", chan)
              ELSE ReadDone(t, "none", "in_input", chan, U(code),
                            ltc4282_read_voltage_word(code,
                                                      InFullScale(chan)))
        \/ \E attr \in {"in_max", "in_min"} :
              \E in \in Held(InReadReg(attr, chan)) :
                  IF err THEN ReadFail(attr, chan)
                  ELSE ReadDone(t, "none", attr, chan, U(in),
                                ltc4282_read_voltage_byte(in,
                                                          InFullScale(chan)))
    /\ UNCHANGED <<mapCall, attachVars, regs, lockOwner, targ, gpioCall>>

\* ltc4282_read_curr with the value read: curr_input, curr_max, curr_min
ReadCurr(t) ==
    /\ CallStart(t)
    /\ acc' = Access(t)
    /\ \E err \in BOOLEAN, z \in DivZero(st.rsense) :
        \/ \E code \in SenseCodes :
              IF err THEN ReadFail("curr_input", "none")
              ELSE ReadDone(t, z, "curr_input", "none", U(code),
                            ltc4282_read_current(
                                ltc4282_read_voltage_word(code, 400 * MILLI),
                                st.rsense))
        \/ \E attr \in {"curr_max", "curr_min"} :
              \E in \in Held(IF attr = "curr_max"
                             THEN "vsense_max" ELSE "vsense_min") :
                  IF err THEN ReadFail(attr, "none")
                  ELSE ReadDone(t, z, attr, "none", U(in),
                                ltc4282_read_current(
                                    ltc4282_read_voltage_byte(in,
                                                              400 * MILLI),
                                    st.rsense))
    /\ UNCHANGED <<mapCall, attachVars, regs, lockOwner, targ, gpioCall>>

\* ltc4282_read_power with the value read: power_input, power_max,
\* power_min
ReadPower(t) ==
    /\ CallStart(t)
    /\ acc' = Access(t)
    /\ \E err \in BOOLEAN, z \in DivZero(st.rsense) :
        \/ \E code \in PowerCodes :
              IF err THEN ReadFail("power_input", "none")
              ELSE ReadDone(t, z, "power_input", "none", U(code),
                            ltc4282_read_power_word(code, st.vfs_out,
                                                    st.rsense))
        \/ \E attr \in {"power_max", "power_min"} :
              \E in \in Held(IF attr = "power_max"
                             THEN "power_max" ELSE "power_min") :
                  IF err THEN ReadFail(attr, "none")
                  ELSE ReadDone(t, z, attr, "none", U(in),
                                ltc4282_read_power_byte(in, st.vfs_out,
                                                        st.rsense))
    /\ UNCHANGED <<mapCall, attachVars, regs, lockOwner, targ, gpioCall>>

\* regmap_write of byte to reg for a watched write of val
WriteDone(attr, chan, val, reg, byte, err) ==
    /\ regs' = IF err THEN regs ELSE [regs EXCEPT ![reg] = byte]
    /\ hwmonCall' = Observed(Wr(attr, chan, val, byte,
                                IF err THEN "EIO" ELSE "OK"), hwmonCall)

\* ltc4282_write_in with the value written: in_max, in_min
WriteIn(t) ==
    /\ CallStart(t)
    /\ acc' = Access(t)
    /\ \E attr \in {"in_max", "in_min"}, chan \in {"vsource", "vgpio"},
          val \in InValues, err \in BOOLEAN :
        \E byte \in ltc4282_write_voltage_byte(val, InFullScale(chan)) :
            WriteDone(attr, chan, val, InWriteReg(attr, chan), byte, err)
    /\ UNCHANGED <<mapCall, attachVars, lockOwner, tpc, targ, gpioCall>>

\* ltc4282_write_curr with the value written: curr_max, curr_min
WriteCurr(t) ==
    /\ CallStart(t)
    /\ acc' = Access(t)
    /\ \E attr \in {"curr_max", "curr_min"}, val \in CurrValues,
          err \in BOOLEAN :
        \E byte \in ltc4282_write_voltage_byte(
                        CurrToMillivolt(val, st.rsense), 40) :
            WriteDone(attr, "none", val,
                      IF attr = "curr_max" THEN "vsense_max"
                      ELSE "vsense_min", byte, err)
    /\ UNCHANGED <<mapCall, attachVars, lockOwner, tpc, targ, gpioCall>>

\* ltc4282_write_power with the value written: power_max, power_min
WritePower(t) ==
    /\ CallStart(t)
    /\ acc' = Access(t)
    /\ \E attr \in {"power_max", "power_min"}, val \in PowerValues,
          err \in BOOLEAN :
        WriteDone(attr, "none", val,
                  IF attr = "power_max" THEN "power_max" ELSE "power_min",
                  ltc4282_write_power_byte(val, st.vfs_out, st.rsense), err)
    /\ UNCHANGED <<mapCall, attachVars, lockOwner, tpc, targ, gpioCall>>

\* the attributes the switch statements of ltc4282_read_in,
\* ltc4282_read_curr and ltc4282_read_power have a case for, under the
\* sensor types ltc4282_read has a case for
ltc4282_read_cases ==
    {"in_input", "in_highest", "in_lowest", "in_max_alarm", "in_min_alarm",
     "in_crit_alarm", "in_lcrit_alarm", "in_max", "in_min",
     "curr_input", "curr_highest", "curr_lowest", "curr_max", "curr_min",
     "curr_max_alarm", "curr_min_alarm", "curr_crit_alarm",
     "power_input", "power_input_highest", "power_input_lowest",
     "power_max_alarm", "power_min_alarm", "power_average", "power_max",
     "power_min"}

\* the same for ltc4282_write_in, ltc4282_write_curr, ltc4282_write_power
\* under ltc4282_write
ltc4282_write_cases ==
    {"in_max", "in_min", "curr_max", "curr_min", "power_max", "power_min"}

\* the attributes the hwmon core reads through .read_string
LabelAttrs == {"in_label", "curr_label", "power_label"}

\* ltc4282_is_visible: the mode of an attribute, "0" when it is hidden
ltc4282_is_visible(attr) ==
    CASE attr \in {"in_input", "in_highest", "in_lowest", "in_max_alarm",
                   "in_min_alarm", "in_label", "in_lcrit_alarm",
                   "in_crit_alarm", "curr_input", "curr_highest",
                   "curr_lowest", "curr_max_alarm", "curr_min_alarm",
                   "curr_crit_alarm", "curr_label", "power_input",
                   "power_input_highest", "power_input_lowest", "power_label",
                   "power_max_alarm", "power_min_alarm", "power_average"}
              -> "0444"
      [] attr \in {"in_max", "in_min", "curr_max", "curr_min", "power_max",
                   "power_min"} -> "0644"
      [] OTHER -> "0"

\* attributes of the hwmon core a request may name: those of the driver and
\* some of sensor types and attributes it has no case for
RequestAttrs ==
    ltc4282_read_cases \cup LabelAttrs \cup
    {"in_average", "in_crit", "curr_average", "curr_crit", "power_cap",
     "power_crit", "temp_input", "temp_max", "energy_input", "fan_input"}

\* ltc4282_read_labels: a constant string, no register access
ReadLabels(t) ==
    /\ CallStart(t)
    /\ \E attr \in LabelAttrs :
        hwmonCall' = Observed(Rd(attr, "none", <<>>, "OK", <<>>), hwmonCall)
    /\ UNCHANGED <<mapCall, attachVars, regs, lockOwner, tpc, targ, acc, gpioCall>>

\* Unsupported with the register of the nearest case read before the
\* attribute is refused
Unsupported_ReadsFirst(t) ==
    /\ CallStart(t)
    /\ acc' = Access(t)
    /\ \E op \in {"read", "write"}, attr \in RequestAttrs \ LabelAttrs :
        /\ attr \notin (IF op = "read" THEN ltc4282_read_cases
                        ELSE ltc4282_write_cases)
        /\ hwmonCall' =
              Observed(IF op = "read"
                       THEN Rd(attr, "none", <<>>, "ENOTSUPP", <<>>)
                       ELSE Wr(attr, "none", U(1000), 0, "ENOTSUPP"),
                       hwmonCall)
    /\ UNCHANGED <<mapCall, attachVars, regs, lockOwner, tpc, targ, gpioCall>>

\* ltc4282_read and ltc4282_write of a sensor type or an attribute that no
\* switch has a case for: the default branches return -ENOTSUPP
Unsupported(t) ==
    /\ CallStart(t)
    /\ \E op \in {"read", "write"}, attr \in RequestAttrs \ LabelAttrs :
        /\ attr \notin (IF op = "read" THEN ltc4282_read_cases
                        ELSE ltc4282_write_cases)
        /\ hwmonCall' =
              Observed(IF op = "read"
                       THEN Rd(attr, "none", <<>>, "ENOTSUPP", <<>>)
                       ELSE Wr(attr, "none", U(1000), 0, "ENOTSUPP"),
                       hwmonCall)
    /\ UNCHANGED <<mapCall, attachVars, regs, lockOwner, tpc, targ, acc, gpioCall>>

Call(t) ==
    \/ GpioInputSet(t)
    \/ GpioSet(t)
    \/ GpioGet(t)
    \/ OutLock(t)
    \/ OutCfg(t)
    \/ OutVal(t)
    \/ PaLock(t)
    \/ PaEnergy(t)
    \/ PaCount(t)
    \/ ShowValue(t)
    \/ HwmonRead(t)
    \/ HwmonWrite(t)

-----------------------------------------------------------------------------
(* The attach sequence alone. *)

Attach ==
    \/ PowerOnEnable
    \/ PowerOnPoll
    \/ PowerOnReturn
    \/ SoftReset
    \/ Settle
    \/ ClksSetup
    \/ SetupRsense
    \/ SetupVin
    \/ SetupIlim
    \/ SetupVddMonitor
    \/ SetupOv
    \/ SetupUv
    \/ SetupOnDelay
    \/ SetupOnActiveLow
    \/ SetupOcRetry
    \/ SetupFet
    \/ GpioSetupPin
    \/ GpioChipAdd
    \/ MutexInit
    \/ HwmonRegister

Next == Attach

Spec == Init /\ [][Next]_vars

(* The attach sequence for the nodes that give a current limit. *)

SpecIlim == InitIlim /\ [][Next]_vars

(* The attach sequence and the callbacks. *)

NextRun == Attach \/ \E t \in dt.callers : Call(t)

SpecRun == InitRun /\ [][NextRun]_vars

(* The attach sequence and the callbacks of the gpio_chip. *)

NextGpio ==
    \/ Attach
    \/ \E t \in dt.callers : GpioInputSet(t)
    \/ \E t \in dt.callers : GpioSet(t)
    \/ \E t \in dt.callers : GpioGet(t)
    \/ \E t \in dt.callers : OutLock(t)
    \/ \E t \in dt.callers : OutCfg(t)
    \/ \E t \in dt.callers : OutVal(t)

SpecGpio == InitGpio /\ [][NextGpio]_vars

(* The attach sequence and the hwmon calls with their values. *)

NextConv ==
    \/ Attach
    \/ \E t \in dt.callers : ReadIn(t)
    \/ \E t \in dt.callers : ReadCurr(t)
    \/ \E t \in dt.callers : ReadPower(t)
    \/ \E t \in dt.callers : WriteIn(t)
    \/ \E t \in dt.callers : WriteCurr(t)
    \/ \E t \in dt.callers : WritePower(t)
    \/ \E t \in dt.callers : PaLock(t)
    \/ \E t \in dt.callers : PaEnergy(t)
    \/ \E t \in dt.callers : PaCount(t)
    \/ \E t \in dt.callers : ShowValue(t)

SpecConv == InitConv /\ [][NextConv]_vars

(* The attach sequence and the reads of the voltage channels. *)

NextIn == Attach \/ \E t \in dt.callers : ReadIn(t)

SpecIn == InitConv /\ [][NextIn]_vars

(* The attach sequence, the requests the driver refuses and the reads and *)
(* writes of the voltage channels.                                        *)

NextAttr ==
    \/ Attach
    \/ \E t \in dt.callers : Unsupported(t)
    \/ \E t \in dt.callers : ReadLabels(t)
    \/ \E t \in dt.callers : ReadIn(t)
    \/ \E t \in dt.callers : WriteIn(t)

SpecAttr == InitConv /\ [][NextAttr]_vars

-----------------------------------------------------------------------------
(* ltc4282_regmap_config: the register map and its access predicates,     *)
(* which regmap asks about the address of an access.                      *)

LTC4282_STATUS_LSB == 30
LTC4282_STATUS_MSB == 31
LTC4282_RESERVED_1 == 50
LTC4282_RESERVED_2 == 51
LTC4282_RESERVED_3 == 80

\* .max_register
max_register == LTC4282_RESERVED_3

ltc4282_readable_reg(reg) ==
    IF reg = LTC4282_RESERVED_1 \/ reg = LTC4282_RESERVED_2 THEN FALSE
    ELSE TRUE

ltc4282_writable_reg(reg) ==
    IF reg = LTC4282_STATUS_LSB \/ reg = LTC4282_STATUS_MSB THEN FALSE
    ELSE IF reg = LTC4282_RESERVED_1 \/ reg = LTC4282_RESERVED_2 THEN FALSE
    ELSE TRUE

\* .readable_reg asked about an address of the map
ReadableReg ==
    /\ \E reg \in 0 .. max_register :
        mapCall' = [fn |-> "readable_reg", reg |-> reg,
                    ok |-> ltc4282_readable_reg(reg)]
    /\ UNCHANGED <<attachVars, regs, lockOwner, tpc, targ, acc, gpioCall,
                   hwmonCall>>

\* .writeable_reg asked about an address of the map
WritableReg ==
    /\ \E reg \in 0 .. max_register :
        mapCall' = [fn |-> "writeable_reg", reg |-> reg,
                    ok |-> ltc4282_writable_reg(reg)]
    /\ UNCHANGED <<attachVars, regs, lockOwner, tpc, targ, acc, gpioCall,
                   hwmonCall>>

NextMap == ReadableReg \/ WritableReg

SpecMap == Init /\ [][NextMap]_vars

-----------------------------------------------------------------------------
(* Properties of the attach sequence. *)

Range(q) == {q[i] : i \in 1 .. Len(q)}

\* the entries log' adds to log
Added == {log'[i] : i \in Len(log) + 1 .. Len(log')}

PowerOnPcs == {"probe", "power_on_poll", "power_on_ret"}
ResetPcs == {"reset", "settle"}
ConfigPcs == {"clks", "rsense", "vin", "ilim", "vdd_monitor", "ov", "uv",
              "on_delay", "on_active_low", "oc_retry", "fet", "gpio_loop",
              "gpio_add", "mutex_init", "hwmon"}

\* the phase of a position of ltc4282_probe
PhaseOf(p) ==
    CASE p \in PowerOnPcs -> 1
      [] p \in ResetPcs -> 2
      [] p \in ConfigPcs -> 3
      [] p = "ready" -> 4
      [] OTHER -> 5

\* the phase that issues an access to field f
PhaseOfAccess(f) == CASE f = "status" -> 1 [] f = "reset" -> 2 [] OTHER -> 3

\* C1: when every poll reports the supply as not stable, power-on fails with
\* a timeout after exactly 5 polls and attach fails.
C1_NeverStableTimesOut ==
    [][(pc = "power_on_ret" /\ lastPoll = "unstable")
        => (ret = "ETIMEDOUT" /\ polls = 5 /\ pc' = "failed")]_vars

\* C2: when the k-th poll, k in 1..5, is the first to report the supply
\* stable, power-on succeeds after exactly k polls (k status reads) and
\* attach goes on to the soft reset.
C2_StableWithinFiveSucceeds ==
    [][(pc = "power_on_ret" /\ lastPoll = "stable" /\ polls \in 1 .. 5)
        => (ret = "OK" /\ Len(log) = polls /\ pc' = "reset")]_vars

C2_Witness ==
    pc = "power_on_ret" /\ lastPoll = "stable" /\ polls = 3 /\ ret = "OK"

FieldsOf(k) ==
    CASE k = "clkin" -> {"clk_div"}
      [] k = "clkout" -> {"clkout"}
      [] k = "vin" -> {"vin_mode", "foldback"}
      [] k = "ilim" -> {"ilim"}
      [] k = "ov" -> {"ov_mode"}
      [] k = "uv" -> {"uv_mode"}
      [] k = "fet" -> {"fet_timeout"}
      [] k = "gpio1" -> {"gpio1_config"}
      [] k \in {"gpio2", "gpio3"} -> {"gpio2_fet_stress", "gpio_mode"}
      [] OTHER -> {}

\* C4 as stated: once a value has failed validation, attach has issued no
\* configuration register write.
C4_NoWriteBeforeRejection ==
    rejected # "none" => Range(log) \subseteq {"status", "reset"}

\* C4 as amended: the step that rejects a value writes no field of that
\* value, and attach issues no register access afterwards; what was written
\* for the values before it stays written.
C4_AbortsAtRejectedValue ==
    [][/\ (rejected = "none" /\ rejected' # "none")
             => Added \cap FieldsOf(rejected') = {}
       /\ rejected # "none" => (log' = log /\ regs' = regs)]_vars

C4_Witness ==
    /\ rejected = "ilim"
    /\ pc = "failed"
    /\ "vin_mode" \in Range(log)
    /\ regs["vin_mode"] # HW_DEFAULT

\* the values the specification allows for a constrained property
AllowedValues(k) ==
    CASE k = "vin" -> {3300000, 5000000, 12000000, 24000000}
      [] k = "ilim" -> {12500, 15625, 18750, 21875, 25000, 28125, 31250, 34375}
      [] k \in {"ov", "uv"} -> 0 .. 3
      [] k = "fet" -> 0 .. 255
      [] k = "clkin" -> LTC4282_CLKIN_MIN .. LTC4282_CLKIN_MAX
      [] k = "clkout" -> {0, 1}
      [] k = "gpio1" -> {LTC4282_PIN_GPIO, LTC4282_PIN_POWER_BAD,
                         LTC4282_PIN_POWER_GOOD}
      [] k = "gpio2" -> {LTC4282_PIN_GPIO, LTC4282_PIN_ADC,
                         LTC4282_PIN_FET_STRESS}
      [] k = "gpio3" -> {LTC4282_PIN_GPIO, LTC4282_PIN_ADC}
      [] OTHER -> {1}

Constrained == {"vin", "ilim", "ov", "uv", "fet", "clkin", "clkout",
                "gpio1", "gpio2", "gpio3"}

Supplied(k) == cfg[k] \notin {Absent, Unread}

\* C5: a value outside the allowed set of a constrained property makes
\* attach return an error; Ready is not reached.
C5_InvalidValueFailsAttach ==
    (\E k \in Constrained : Supplied(k) /\ cfg[k] \notin AllowedValues(k))
        => (pc = "failed" /\ ret # "OK")

\* C6: a bus error on any register access of attach makes attach fail with
\* that error, with no further register access.
C6_BusErrorFailsAttach ==
    [][busErr => (/\ pc \in {"power_on_ret", "failed"}
                  /\ ret = "EIO"
                  /\ log' = log)]_vars

\* C9: at most one pin holds the ADC monitor input function, and a second
\* pin asking for it makes GPIO setup and attach fail.
C9_SecondAdcRequestFails ==
    /\ Cardinality({p \in 0 .. LTC4282_ALERT : pinFunc[p] = "adc"}) <= 1
    /\ (cfg["gpio2"] = LTC4282_PIN_ADC /\ cfg["gpio3"] = LTC4282_PIN_ADC)
          => (pc = "failed" /\ ret # "OK")

\* the function a function code names on a pin
FuncName(p, f) ==
    CASE f = LTC4282_PIN_GPIO -> "gpio"
      [] f = LTC4282_PIN_POWER_BAD -> "power_bad"
      [] f = LTC4282_PIN_FET_STRESS -> "fet_stress"
      [] p = LTC4282_GPIO_1 -> "power_good"
      [] OTHER -> "adc"

\* C10: every function of a pin's allowed set is accepted and, once GPIO
\* setup has handled the pin, applied; a function outside the set is
\* rejected.
C10_PinFunctionsAccepted ==
    \A p \in LTC4282_GPIO_1 .. LTC4282_GPIO_3 :
        LET k == ltc4282_gpio_prop[p + 1] IN
        Supplied(k) =>
            /\ cfg[k] \in AllowedValues(k) => rejected # k
            /\ (cfg[k] \in AllowedValues(k) /\ pc \in {"mutex_init", "hwmon", "ready"})
                  => pinFunc[p] = FuncName(p, cfg[k])
            /\ cfg[k] \notin AllowedValues(k) => rejected = k

-----------------------------------------------------------------------------
(* Properties of the callbacks. *)

LockedPcs == {"out_cfg", "out_val", "pa_energy", "pa_count"}

\* C7: between the energy read and the counter read of an average-power
\* read the reader owns the lock and no other operation that takes the lock
\* accesses a register.
C7_PowerAveragePairUnderLock ==
    [][\A t \in Threads :
          tpc[t] = "pa_count" =>
              /\ lockOwner = t
              /\ \A u \in Threads \ {t} :
                    tpc[u] \in LockedPcs => tpc'[u] = tpc[u]]_vars

\* C8: in the Ready state every register access of a callback is made by a
\* caller that owns the lock.
C8_AccessesUnderLock == acc # "unlocked"

-----------------------------------------------------------------------------
(* Properties of the calibration. *)

\* C11: when the node holds no adi,rsense-nano-ohms, configuration fails
\* with an error, so attach is failed in every state that has read the
\* property as absent and Ready is never reached.
C11_MissingRsenseFailsAttach ==
    cfg["rsense"] = Absent => (pc = "failed" /\ ret # "OK")

C11_Witness == cfg["rsense"] = Absent /\ pc = "failed" /\ ret = "EINVAL"

\* C12: in every Ready state the stored sense resistance is greater than 0,
\* whatever value the property holds.
C12_RsensePositiveWhenReady == Ready => st.rsense > 0


-----------------------------------------------------------------------------
(* Properties of the gpio_chip callbacks. *)

ActiveLowPins == {LTC4282_GPIO_2, LTC4282_GPIO_3, LTC4282_ALERT}

\* the level a request for val on pin is expected to put in its output bit
Complemented(pin, val) == IF pin \in ActiveLowPins THEN 1 - val ELSE val

\* a step of value-set or direction-output that issues the write of the
\* output bit
OutputWriteStep ==
    /\ gpioCall'.out # -1
    /\ \/ gpioCall' # gpioCall
       \/ \E p \in 0 .. LTC4282_ALERT :
             regs'[out_field[p]] # regs[out_field[p]]

\* the output bit written for every request is the requested level,
\* complemented on GPIO2, GPIO3 and ALERT, and no other output bit changes
C18_SetPart ==
    /\ OutputWriteStep =>
          /\ gpioCall'.op \in {"set", "direction_output"}
          /\ gpioCall'.out = Complemented(gpioCall'.pin, gpioCall'.val)
          /\ regs'[out_field[gpioCall'.pin]] \in
                {regs[out_field[gpioCall'.pin]], gpioCall'.out}
          /\ gpioCall'.op = "direction_output" /\ gpioCall'.ret = "OK" =>
                regs'[out_field[gpioCall'.pin]] = gpioCall'.out
    /\ \A p \in 0 .. LTC4282_ALERT :
          regs'[out_field[p]] # regs[out_field[p]] /\ gcReg =>
              /\ p = gpioCall'.pin
              /\ regs'[out_field[p]] = Complemented(p, gpioCall'.val)

\* C18 as stated: value-set and direction-output write the complement
\* of the requested level on the active-low pins GPIO2, GPIO3 and ALERT and
\* the level itself on GPIO1, and value-get returns the complement of the
\* status bit on the active-low pins and the bit itself on GPIO1.
C18_Original ==
    [][/\ C18_SetPart
       /\ gpioCall'.op = "get" /\ gpioCall'.ret = "OK" =>
             gpioCall'.res = Complemented(gpioCall'.pin, gpioCall'.val)]_vars

\* C18 (amended): value-set and direction-output write the complement of
\* the requested level to the output bit of GPIO2, GPIO3 and ALERT and the
\* level itself to that of GPIO1; value-get returns the pin's status bit
\* unchanged for every pin.
C18_OutputsInvertGetIsRaw ==
    [][/\ C18_SetPart
       /\ gpioCall'.op = "get" /\ gpioCall'.ret = "OK" =>
             gpioCall'.res = gpioCall'.val]_vars

C18_Witness ==
    /\ gpioCall.op = "direction_output"
    /\ gpioCall.pin = LTC4282_GPIO_2
    /\ gpioCall.val = 1
    /\ gpioCall.ret = "OK"
    /\ regs["gpio2_out"] = 0

\* the step on which a direction-output request of caller t returns
OutputReturns(t) == tpc[t] \in {"out_cfg", "out_val"} /\ tpc'[t] = "idle"

\* a direction-input request has been served
InputServed == gpioCall'.op = "direction_input" /\ gpioCall' # gpioCall

\* a request on a pin other than GPIO1 keeps the GPIO1 mode field, and
\* direction-input on such a pin returns success without a register access
C19_OtherPinsFrame ==
    /\ \A t \in dt.callers :
          (tpc[t] \in {"out_cfg", "out_val"} /\ gpioCall.pin # LTC4282_GPIO_1)
              => regs'["gpio1_config"] = regs["gpio1_config"]
    /\ (InputServed /\ gpioCall'.pin # LTC4282_GPIO_1) =>
          /\ gpioCall'.ret = "OK"
          /\ regs' = regs
          /\ acc' = acc

\* the GPIO1 mode field changes only on a request on GPIO1: to 3 (input)
\* by direction-input and to 2 (output) by direction-output
C19_OnlyGpio1 ==
    (gcReg /\ regs'["gpio1_config"] # regs["gpio1_config"]) =>
        /\ gpioCall'.pin = LTC4282_GPIO_1
        /\ \/ gpioCall'.op = "direction_input" /\ regs'["gpio1_config"] = 3
           \/ gpioCall'.op = "direction_output" /\ regs'["gpio1_config"] = 2

\* C19 as stated: a direction-set request on a pin mapped to GPIO2, GPIO3
\* or ALERT returns success and leaves the GPIO1 mode field unchanged
\* (direction-input makes no register write); only a request on GPIO1
\* changes the field, to input mode or to output mode.
C19_Original ==
    [][/\ C19_OtherPinsFrame
       /\ C19_OnlyGpio1
       /\ \A t \in dt.callers :
             (OutputReturns(t) /\ gpioCall.pin # LTC4282_GPIO_1)
                 => gpioCall'.ret = "OK"]_vars

\* C19 (amended): on a pin mapped to GPIO2, GPIO3 or ALERT direction-input
\* returns success without a register access, and direction-output writes
\* the pin's output bit only and returns success unless that write fails,
\* in which case it returns the error and no register changed; the GPIO1
\* mode field changes only on a request on GPIO1, to input mode or to
\* output mode.
C19_DirectionOnlyConfiguresGpio1 ==
    [][/\ C19_OtherPinsFrame
       /\ C19_OnlyGpio1
       /\ \A t \in dt.callers :
             (OutputReturns(t) /\ gpioCall.pin # LTC4282_GPIO_1) =>
                 /\ \A f \in Fields \ {out_field[gpioCall.pin]} :
                       regs'[f] = regs[f]
                 /\ \/ gpioCall'.ret = "OK"
                    \/ gpioCall'.ret = "EIO" /\ regs' = regs]_vars

C19_Witness ==
    /\ gpioCall.op = "direction_output"
    /\ gpioCall.pin = LTC4282_GPIO_3
    /\ gpioCall.ret = "OK"
    /\ tpc[1] = "idle"
    /\ pinFunc[LTC4282_GPIO_1] = "gpio"
    /\ regs["gpio1_config"] = 3
    /\ regs["gpio3_out"] = 1 - gpioCall.val

-----------------------------------------------------------------------------
(* Properties of the logical-offset table. *)

\* ltc4282_gpio_setup has returned 0
GpioSetupDone == pc \in {"mutex_init", "hwmon", "ready"}

\* the pins the properties gave the plain-GPIO function
PlainPins ==
    {p \in LTC4282_GPIO_1 .. LTC4282_GPIO_3 :
        cfg[ltc4282_gpio_prop[p + 1]] = LTC4282_PIN_GPIO}
    \cup (IF cfg["alert"] = 1 THEN {LTC4282_ALERT} ELSE {})

TableIsPlainPins ==
    /\ ngpios = Cardinality(PlainPins)
    /\ {st.gpio_map[i] : i \in Offsets} = PlainPins
    /\ \A i, j \in Offsets : i < j => st.gpio_map[i] < st.gpio_map[j]

\* C20: once GPIO setup is over, the first ngpios entries of gpio_map are
\* exactly the pins given the plain-GPIO function, with ALERT when
\* adi,alert-as-gp is set, in ascending pin order (so ALERT, the highest,
\* is last and no pin is there twice), and no step taken while the
\* gpio_chip is registered changes the table.
C20_TableIsOrderedPlainPins ==
    [][/\ GpioSetupDone' => TableIsPlainPins'
       /\ gcReg => st'.gpio_map = st.gpio_map]_vars

C20_Witness ==
    /\ Ready
    /\ ngpios = 3
    /\ st.gpio_map[0] = LTC4282_GPIO_1
    /\ st.gpio_map[1] = LTC4282_GPIO_3
    /\ st.gpio_map[2] = LTC4282_ALERT
    /\ cfg["gpio2"] = LTC4282_PIN_ADC
    /\ gpioCall.op = "set" /\ gpioCall.pin = LTC4282_ALERT

-----------------------------------------------------------------------------
(* Properties of the conversions and of the thresholds. *)

\* a and b differ by at most d
Within(a, b, d) == Leq(a, Add(b, d)) /\ Leq(b, Add(a, d))

\* the value a threshold reads back as when its register holds U8_MAX
ThresholdFullScale(attr, chan) ==
    CASE attr \in {"in_max", "in_min"} -> U(InFullScale(chan))
      [] attr \in {"curr_max", "curr_min"} ->
            ltc4282_read_current(
                ltc4282_read_voltage_byte(U8_MAX, 400 * MILLI), st.rsense)
      [] OTHER -> ltc4282_read_power_byte(U8_MAX, st.vfs_out, st.rsense)

\* res is within one encoding step of v, or is the full scale fs that v
\* exceeds
RoundTrip(v, res, fs) ==
    \/ Within(v, res, DivSmall(fs, U8_MAX))
    \/ Less(fs, v) /\ res = fs

\* C13: a read of a threshold that follows a write of v to the same
\* threshold returns a value within one encoding step (full scale / 255)
\* of v, or the full scale when v exceeds it (stated for a sense
\* resistance above 0).
C13_WriteThenReadRoundTrip ==
    [][(/\ st.rsense > 0
        /\ hwmonCall.op = "write" /\ hwmonCall.ret = "OK"
        /\ hwmonCall'.op = "read" /\ hwmonCall'.ret = "OK"
        /\ hwmonCall'.attr = hwmonCall.attr
        /\ hwmonCall'.chan = hwmonCall.chan)
          => RoundTrip(hwmonCall.val, hwmonCall'.res,
                       ThresholdFullScale(hwmonCall.attr,
                                          hwmonCall.chan))]_vars

\* round(v * 255 / fs) limited to 255, and 255 from fs on
ClampedQuotient(v, fs) ==
    IF Leq(U(fs), v) THEN U(U8_MAX)
    ELSE DIV_ROUND_CLOSEST_ULL(Mul(v, U(U8_MAX)), <<fs>>)

\* C14: the byte a voltage or current threshold write puts in the register
\* is round(v * 255 / full scale) limited to 255, with v in millivolt (the
\* sense voltage, for a current), and the write returns nothing but the
\* result of the register write.
C14_ThresholdByteIsClampedQuotient ==
    hwmonCall.op = "write" =>
        /\ hwmonCall.ret \in {"OK", "EIO"}
        /\ hwmonCall.attr \in {"in_max", "in_min"} =>
              hwmonCall.code =
                  ClampedQuotient(hwmonCall.val, InFullScale(hwmonCall.chan))
        /\ hwmonCall.attr \in {"curr_max", "curr_min"} =>
              hwmonCall.code =
                  ClampedQuotient(CurrToMillivolt(hwmonCall.val, st.rsense),
                                  40)

\* C15: an average-power read made while the time counter holds 0, whose
\* register reads succeed, returns success and the value 0 whatever the
\* energy register holds.
C15_ZeroCounterGivesZero ==
    (/\ hwmonCall.attr = "power_average"
     /\ hwmonCall.count = 0
     /\ hwmonCall.ret \notin {"running", "EIO"})
        => hwmonCall.ret = "OK" /\ hwmonCall.res = <<>>

\* C16: a power or energy read whose full-precision product fits 64 bits
\* returns a value that differs by at most 1 from what the pre-division
\* branch gives for the same code, full scale and sense resistance
\* (stated for a sense resistance above 0).
C16_PathsAgree ==
    (hwmonCall.op = "read" /\ hwmonCall.ret = "OK" /\ st.rsense > 0) =>
        /\ (/\ hwmonCall.attr = "power_input"
            /\ ~Overflows64(PowerProduct(ToInt(hwmonCall.code), st.vfs_out)))
              => Within(hwmonCall.res,
                        PowerFallback(ToInt(hwmonCall.code),
                                      Wrap64(PowerProduct(
                                          ToInt(hwmonCall.code), st.vfs_out)),
                                      st.rsense),
                        U(1))
        /\ (/\ hwmonCall.attr = "energy"
            /\ ~Overflows64(Mul(EnergyScale(st.vfs_out), hwmonCall.code)))
              => Within(hwmonCall.res,
                        EnergyFallback(hwmonCall.code, st.vfs_out, st.rsense),
                        U(1))

\* C17: of two successive reads of the source voltage, with the full scale
\* among 5540, 8320, 16640 and 33280 mV, the one with the lower 16 bit
\* code does not return the higher voltage.
C17_VoltageWordMonotonic ==
    [][(/\ hwmonCall.op = "read" /\ hwmonCall'.op = "read"
        /\ hwmonCall.attr = "in_input" /\ hwmonCall'.attr = "in_input"
        /\ hwmonCall.chan = "vsource" /\ hwmonCall'.chan = "vsource"
        /\ hwmonCall.ret = "OK" /\ hwmonCall'.ret = "OK"
        /\ hwmonCall'.n = hwmonCall.n + 1
        /\ Leq(hwmonCall.code, hwmonCall'.code))
          => Leq(hwmonCall.res, hwmonCall'.res)]_vars

C17_Witness ==
    /\ hwmonCall.n = 2
    /\ hwmonCall.attr = "in_input" /\ hwmonCall.chan = "vsource"
    /\ hwmonCall.ret = "OK"
    /\ st.vfs_out = 33280
    /\ hwmonCall.code = U(32768)
    /\ hwmonCall.res = U(16640)

-----------------------------------------------------------------------------
(* Properties of the requests the driver refuses. *)

\* the driver offers the request: the attribute is visible, and writable
\* for a write
Implemented(op, attr) ==
    IF op = "read" THEN ltc4282_is_visible(attr) # "0"
    ELSE ltc4282_is_visible(attr) = "0644"

\* a step in which a watched call returns
Returned == hwmonCall'.n = hwmonCall.n + 1 /\ hwmonCall'.ret # "running"

\* C21: a read or write request for a sensor type or an attribute that is
\* not implemented returns the unsupported-attribute error, issues no
\* register access and changes nothing of the device or the driver, so the
\* requests made afterwards find the state they would have found without it.
C21_UnsupportedIsRefused ==
    /\ []((hwmonCall.op \in {"read", "write"}
             /\ ~Implemented(hwmonCall.op, hwmonCall.attr))
            => hwmonCall.ret = "ENOTSUPP")
    /\ [][(Returned /\ ~Implemented(hwmonCall'.op, hwmonCall'.attr))
            => UNCHANGED <<mapCall, attachVars, regs, lockOwner, tpc, targ, acc,
                           gpioCall>>]_vars

\* a write of in_min has changed a threshold register, an unsupported
\* request has followed it and left the register as written
C21_Witness ==
    /\ hwmonCall.n = 2
    /\ hwmonCall.ret = "ENOTSUPP"
    /\ hwmonCall.attr = "temp_input"
    /\ regs["vsource_min"] # HW_DEFAULT
    /\ acc = "unlocked"

-----------------------------------------------------------------------------
(* Properties of the register map. *)

ReservedRegs == {LTC4282_RESERVED_1, LTC4282_RESERVED_2, LTC4282_RESERVED_3}

\* C22: for every address of the map that is a reserved one (0x32, 0x33,
\* 0x50) the readable predicate and the writable predicate are both false.
C22_ReservedNotAccessible ==
    (mapCall.fn # "none" /\ mapCall.reg \in ReservedRegs) => ~mapCall.ok

-----------------------------------------------------------------------------
(* Properties of the average power. *)

\* round(energy * 1,000,000 / (count * 65535)) over the integers
ExactAverage(energy, count) ==
    LET d == Mul(U(count), U(LTC4282_TCONV_US))
    IN  Div(Add(Mul(energy, U(MICRO)), DivSmall(d, 2)), d)

\* C23: when the time counter is not 0 and energy * 1,000,000 fits in 64
\* bits, a read of the average power that succeeds returns
\* round(energy * 1,000,000 / (counter * 65535)), computed without
\* wrap-around.
C23_AveragePowerIsExact ==
    (/\ hwmonCall.attr = "power_average"
     /\ hwmonCall.ret = "OK"
     /\ hwmonCall.count # 0
     /\ ~Overflows64(Mul(hwmonCall.val, U(MICRO))))
        => hwmonCall.res = ExactAverage(hwmonCall.val, hwmonCall.count)

-----------------------------------------------------------------------------
(* Properties of the optional values. *)

OptionalKeys == Keys \ {"rsense", "vin_monitor"}

\* the register fields attach writes for a value of property k
ControlledFields(k) ==
    CASE k \in {"on_delay", "on_active_low", "oc_retry"} -> {k}
      [] k = "gpio3" -> {"gpio_mode"}
      [] OTHER -> FieldsOf(k)

\* no property that controls field f is supplied
Uncontrolled(f) ==
    \A k \in OptionalKeys : f \in ControlledFields(k) => ~Supplied(k)

\* the lines of the gpio_chip's table filled so far
TablePins == {st.gpio_map[i] : i \in 0 .. ngpios - 1}

\* C24 as stated: for each optional value that is absent, attach issues no
\* write to any register field the value controls; with vin-mode absent the
\* driver uses the 12 V class and its full scale of 16640 mV.
C24_Original ==
    /\ \A k \in OptionalKeys :
          cfg[k] = Absent =>
              \A f \in ControlledFields(k) : f \notin Range(log)
    /\ cfg["vin"] = Absent
          => (st.vin_mode = LTC4282_VIN_12V /\ st.vfs_out = 16640)

\* C24 as amended: a register field is written only for a value that is
\* present, so a field none of whose controlling values is present is not
\* written and keeps the chip's default (the ADC input select, which
\* gpio2-mode and gpio3-mode share, is written when either asks for the ADC
\* function); with vin-mode absent the driver uses the 12 V class and its
\* full scale of 16640 mV; with alert-as-gpio absent ALERT is no line of
\* the gpio_chip.
C24_AbsentLeavesDefault ==
    /\ \A k \in OptionalKeys :
          cfg[k] = Absent =>
              \A f \in ControlledFields(k) :
                  Uncontrolled(f)
                      => (f \notin Range(log) /\ regs[f] = HW_DEFAULT)
    /\ cfg["vin"] = Absent
          => (st.vin_mode = LTC4282_VIN_12V /\ st.vfs_out = 16640)
    /\ cfg["alert"] = Absent => LTC4282_ALERT \notin TablePins

\* attach has completed for a node that holds a current limit and a gpio1
\* function and nothing else
C24_Witness ==
    /\ Ready
    /\ Supplied("ilim") /\ "ilim" \in Range(log)
    /\ Supplied("gpio1") /\ "gpio1_config" \in Range(log)
    /\ \A k \in OptionalKeys \ {"ilim", "gpio1", "clkout"} : cfg[k] = Absent
    /\ st.vfs_out = 16640

-----------------------------------------------------------------------------
(* Properties of the input voltage class. *)

\* the four classes in the order of their enumerators, and their full scales
VinClasses == <<3300000, 5000000, 12000000, 24000000>>
FullScales == <<5540, 8320, 16640, 33280>>

\* the enumerator of class v
ClassOf(v) == (CHOOSE i \in 1 .. Len(VinClasses) : VinClasses[i] = v) - 1

\* C25: a vin-mode value is accepted only if it is one of the classes 3.3 V,
\* 5 V, 12 V, 24 V; while attach goes on, and after it has succeeded, with
\* vin-mode supplied, the input-voltage-mode field and the foldback-mode
\* field hold the enumerator of the class (0..3 in that order) and the full
\* scale used by the conversions is the table entry of that enumerator.
C25_VinModeMirrored ==
    /\ (Supplied("vin") /\ cfg["vin"] \notin Range(VinClasses))
          => (pc = "failed" /\ ret = "EINVAL" /\ rejected = "vin")
    /\ (Supplied("vin") /\ pc # "failed")
          => /\ cfg["vin"] \in Range(VinClasses)
             /\ regs["vin_mode"] = ClassOf(cfg["vin"])
             /\ regs["foldback"] = ClassOf(cfg["vin"])
             /\ st.vin_mode = ClassOf(cfg["vin"])
             /\ st.vfs_out = FullScales[ClassOf(cfg["vin"]) + 1]

C25_Witness ==
    /\ Ready
    /\ cfg["vin"] = 24000000
    /\ regs["vin_mode"] = 3 /\ regs["foldback"] = 3
    /\ st.vfs_out = 33280

-----------------------------------------------------------------------------
(* Properties of the current limit. *)

IlimThresholds == {12500, 15625, 18750, 21875, 25000, 28125, 31250, 34375}

\* C26: a current-limit value is accepted if and only if it is one of the 8
\* thresholds; for an accepted value v the code (v - 12500) / 3125, in 0..7,
\* is written to the current-limit field; any other value aborts the
\* configuration and the field is not written.
C26_IlimThresholds ==
    /\ (Supplied("ilim") /\ cfg["ilim"] \notin IlimThresholds)
          => /\ pc = "failed" /\ ret = "EINVAL" /\ rejected = "ilim"
             /\ "ilim" \notin Range(log)
             /\ regs["ilim"] = HW_DEFAULT
    /\ (Supplied("ilim") /\ cfg["ilim"] \in IlimThresholds)
          => /\ rejected # "ilim"
             /\ "ilim" \in Range(log)
             /\ pc # "failed" =>
                   /\ regs["ilim"] = (cfg["ilim"] - 12500) \div 3125
                   /\ regs["ilim"] \in 0 .. 7

C26_Witness ==
    /\ Ready
    /\ cfg["ilim"] = 28125
    /\ regs["ilim"] = 5

-----------------------------------------------------------------------------
(* Properties of the clock setup. *)

ClockFields == {"clk_div", "clkout"}

RateInRange == cfg["clkin"] \in 250000 .. 15500000

\* C27: clock setup writes the clock-divisor field only when an external
\* clock is present and its rate lies in 250,000..15,500,000 Hz; the value
\* written is floor(rate / 500,000), which fits the 5-bit field (0..31)
\* without truncation; a rate outside the range makes attach fail before
\* any clock register write.
C27_ClockDivisor ==
    /\ "clk_div" \in Range(log) => (Supplied("clkin") /\ RateInRange)
    /\ regs["clk_div"] # HW_DEFAULT
          => /\ regs["clk_div"] = cfg["clkin"] \div 500000
             /\ regs["clk_div"] \in 0 .. 31
    /\ (Supplied("clkin") /\ ~RateInRange)
          => /\ pc = "failed" /\ ret # "OK"
             /\ Range(log) \cap ClockFields = {}

\* the highest accepted rate has been written as divisor 31
C27_Witness ==
    /\ cfg["clkin"] = 15500000
    /\ regs["clk_div"] = 31
    /\ pc = "rsense"

-----------------------------------------------------------------------------
(* Properties of the lock. *)

\* C28: the lock is initialised before an operation that acquires it can be
\* invoked: no direction-output call, which takes the lock, runs between
\* the registration of the gpio_chip and the initialisation of the lock.
C28_LockInitialisedBeforeUse ==
    \A t \in Threads : tpc[t] \in {"out_cfg", "out_val"} => lockInit

\* a step in which thread t's direction-output call on GPIO_1 returns,
\* holding the initialised lock, after its write of the output bit has
\* changed the bit, which a failed write does not
Gpio1OutputReturns(t) ==
    /\ tpc[t] = "out_val" /\ tpc'[t] = "idle"
    /\ lockInit /\ lockOwner = t
    /\ st.gpio_map[targ[t].offset] = LTC4282_GPIO_1
    /\ regs'["gpio1_out"] # regs["gpio1_out"]

\* C29: a direction-output request on GPIO1 is atomic with respect to
\* concurrent direction-input and value-set requests on the pin: at the
\* moment it returns success, and so before any later request, the GPIO1
\* mode field is in output mode and the GPIO1 output bit holds the level it
\* was given.
C29_DirectionOutputAtomic ==
    [][\A t \in Threads :
          Gpio1OutputReturns(t) =>
              /\ regs'["gpio1_config"] = 2
              /\ regs'["gpio1_out"] = targ[t].val]_vars

=============================================================================
